---- MODULE Spec2Model ----
(***************************************************************************)
(* Text-to-event extraction pipeline of easy-ics (backend/app/services).   *)
(*                                                                         *)
(* A Python str is a sequence of characters; a character is a one-letter   *)
(* string, or the name "uXXXX" of a code point outside ASCII.  The Python  *)
(* value None is NoneStr for an Optional[str] and NoneDT for an            *)
(* Optional[datetime].  A datetime is <<year, month, day, hour, minute>>.  *)
(***************************************************************************)
EXTENDS Integers, Sequences, FiniteSets, TLC

VARIABLES text, timezone, now, dpStatus, dpValue, pc, op, ret, exc,
          _parser_service_instance, calls, constructed,
          ics_events, _dateparser_service

vars == <<text, timezone, now, dpStatus, dpValue, pc, op, ret, exc,
          _parser_service_instance, calls, constructed,
          ics_events, _dateparser_service>>

(***************************************************************************)
(* Characters                                                              *)
(***************************************************************************)
Chars(s) == [i \in 1..Len(s) |-> SubSeq(s, i, i)]

NoneStr == <<"None">>
NoneDT == <<>>

Digit == {"0", "1", "2", "3", "4", "5", "6", "7", "8", "9"}

DigitVal == [c \in Digit |->
    CASE c = "0" -> 0 [] c = "1" -> 1 [] c = "2" -> 2 [] c = "3" -> 3
      [] c = "4" -> 4 [] c = "5" -> 5 [] c = "6" -> 6 [] c = "7" -> 7
      [] c = "8" -> 8 [] c = "9" -> 9]

UpperLetters == "ABCDEFGHIJKLMNOPQRSTUVWXYZ"
LowerLetters == "abcdefghijklmnopqrstuvwxyz"
Upper == {SubSeq(UpperLetters, i, i) : i \in 1..26}
Lower == {SubSeq(LowerLetters, i, i) : i \in 1..26}

\* str.lower() on one character
LowerOf == [c \in Upper |->
    LET i == CHOOSE k \in 1..26 : SubSeq(UpperLetters, k, k) = c
    IN SubSeq(LowerLetters, i, i)]

lowerChar(c) == IF c \in Upper THEN LowerOf[c] ELSE c

lower(t) == [i \in 1..Len(t) |-> lowerChar(t[i])]

\* code points outside ASCII that the sources name
FW_COLON == "uFF1A"
FW_COMMA == "uFF0C"
FW_SEMICOLON == "uFF1B"
CJK_STOP == "u3002"
FW_LPAREN == "uFF08"
FW_RPAREN == "uFF09"
BROKEN_BAR == "u00A6"
DEVANAGARI_O == "u0949"
IDEO_SPACE == "u3000"
NIAN == "u5E74"
YUE == "u6708"
RI == "u65E5"
DAO == "u5230"
ZHI == "u81F3"
DI == "u5730"
DIAN == "u70B9"
ZHI3 == "u5740"
HUI == "u4F1A"
YI == "u8BAE"
JIN == "u7D27"
JI == "u6025"
ZHONG == "u91CD"
YAO == "u8981"
LI == "u7ACB"
JI2 == "u5373"
KE == "u53EF"
XUAN == "u9009"
SUI == "u968F"
YI4 == "u610F"
LING == "u7075"
HUO == "u6D3B"

Ideographs == {NIAN, YUE, RI, DAO, ZHI, DI, DIAN, ZHI3, HUI, YI, JIN, JI,
               ZHONG, YAO, LI, JI2, KE, XUAN, SUI, YI4, LING, HUO}

\* str.isspace(): what str.strip() removes and the regex class \s matches
Whitespace == {" ", "\t", "\n", "\r", "\f", IDEO_SPACE}

\* the regex class \w
WordChar == Upper \cup Lower \cup Digit \cup {"_"} \cup Ideographs

IsDigitAt(t, i) == i >= 1 /\ i <= Len(t) /\ t[i] \in Digit

CharAt(t, i) == IF i >= 1 /\ i <= Len(t) THEN t[i] ELSE ""

\* number of digits at i, at most max (a greedy \d{1,max})
RECURSIVE DigitRun(_, _, _)
DigitRun(t, i, max) ==
    IF max = 0 \/ ~IsDigitAt(t, i) THEN 0 ELSE 1 + DigitRun(t, i + 1, max - 1)

\* int() of the k digits at i
RECURSIVE IntAt(_, _, _)
IntAt(t, i, k) ==
    IF k = 0 THEN 0 ELSE IntAt(t, i, k - 1) * 10 + DigitVal[t[i + k - 1]]

\* whether the characters of w stand at i, upper or lower case
StartsWithAt(t, i, w) ==
    /\ i >= 1
    /\ i + Len(w) - 1 <= Len(t)
    /\ \A k \in 1..Len(w) : lowerChar(t[i + k - 1]) = w[k]

\* str.__contains__ (keyword in text)
Contains(t, w) ==
    \E i \in 1..(Len(t) - Len(w) + 1) :
        \A k \in 1..Len(w) : t[i + k - 1] = w[k]

MinOf(S) == CHOOSE x \in S : \A y \in S : x <= y

\* the first element of rs that is not none, none when every element is:
\* what re.search gives of the matches at the positions of a text, and what
\* a loop that returns at its first success gives
FirstOther(rs, none) ==
    IF \A n \in 1..Len(rs) : rs[n] = none THEN none
    ELSE rs[MinOf({n \in 1..Len(rs) : rs[n] # none})]

\* the Python slice t[a-1:b]
Slice(t, a, b) == SubSeq(t, a, IF b > Len(t) THEN Len(t) ELSE b)

\* str.strip()
strip(t) ==
    IF \A i \in 1..Len(t) : t[i] \in Whitespace THEN <<>>
    ELSE LET first == CHOOSE i \in 1..Len(t) :
                          /\ t[i] \notin Whitespace
                          /\ \A j \in 1..(i - 1) : t[j] \in Whitespace
             last == CHOOSE i \in 1..Len(t) :
                          /\ \A j \in (i + 1)..Len(t) : t[j] \in Whitespace
                          /\ t[i] \notin Whitespace
         IN SubSeq(t, first, last)

\* the result of re.sub: marks[i] is what character i becomes, "" when it
\* is deleted
Rebuild(marks) == SelectSeq(marks, LAMBDA c : c # "")

(***************************************************************************)
(* datetime                                                                *)
(***************************************************************************)
IsLeap(y) == (y % 4 = 0 /\ y % 100 # 0) \/ y % 400 = 0

DaysInMonth(y, m) ==
    IF m = 2 THEN (IF IsLeap(y) THEN 29 ELSE 28)
    ELSE IF m \in {4, 6, 9, 11} THEN 30 ELSE 31

\* datetime.datetime(year, month, day, hour, minute) raises ValueError
ValidDateTime(y, m, d, h, mi) ==
    /\ y >= 1 /\ y <= 9999
    /\ m >= 1 /\ m <= 12
    /\ d >= 1 /\ d <= DaysInMonth(y, m)
    /\ h >= 0 /\ h <= 23
    /\ mi >= 0 /\ mi <= 59

Year(dt) == dt[1]
Month(dt) == dt[2]
Day(dt) == dt[3]
Hour(dt) == dt[4]
Minute(dt) == dt[5]

\* the days before each month of a year that is not a leap year
CumulativeDays == <<0, 31, 59, 90, 120, 151, 181, 212, 243, 273, 304, 334>>

\* the number of the day of dt, counted from 0001-01-01
DayNumber(dt) ==
    365 * (Year(dt) - 1) + ((Year(dt) - 1) \div 4) - ((Year(dt) - 1) \div 100)
        + ((Year(dt) - 1) \div 400) + CumulativeDays[Month(dt)]
        + (IF Month(dt) > 2 /\ IsLeap(Year(dt)) THEN 1 ELSE 0) + Day(dt)

DateOf(dt) == <<dt[1], dt[2], dt[3]>>

\* datetime.__lt__
RECURSIVE LexLess(_, _, _)
LexLess(a, b, i) ==
    IF i > Len(a) THEN FALSE
    ELSE IF a[i] # b[i] THEN a[i] < b[i]
    ELSE LexLess(a, b, i + 1)

Before(a, b) == LexLess(a, b, 1)

\* dt + timedelta(days=1); NoneDT stands for OverflowError
PlusOneDay(dt) ==
    IF Day(dt) < DaysInMonth(Year(dt), Month(dt))
        THEN <<Year(dt), Month(dt), Day(dt) + 1, Hour(dt), Minute(dt)>>
    ELSE IF Month(dt) < 12
        THEN <<Year(dt), Month(dt) + 1, 1, Hour(dt), Minute(dt)>>
    ELSE IF Year(dt) < 9999
        THEN <<Year(dt) + 1, 1, 1, Hour(dt), Minute(dt)>>
    ELSE NoneDT

\* dt + timedelta(hours=1) without the carry into the next day
PlusOneHourWithoutCarry(dt) ==
    <<Year(dt), Month(dt), Day(dt), (Hour(dt) + 1) % 24, Minute(dt)>>

\* dt + timedelta(hours=1); NoneDT stands for OverflowError
PlusOneHour(dt) ==
    IF Hour(dt) < 23
        THEN <<Year(dt), Month(dt), Day(dt), Hour(dt) + 1, Minute(dt)>>
    ELSE PlusOneDay(<<Year(dt), Month(dt), Day(dt), 0, Minute(dt)>>)

\* dt.replace(hour=h, minute=mi); NoneDT stands for ValueError
ReplaceTime(dt, h, mi) ==
    IF h >= 0 /\ h <= 23 /\ mi >= 0 /\ mi <= 59
        THEN <<Year(dt), Month(dt), Day(dt), h, mi>>
    ELSE NoneDT

(***************************************************************************)
(* re_parser.trim_text                                                     *)
(***************************************************************************)
\* re.sub(r" +", " ", text)
CollapseSpaces(t) ==
    Rebuild([i \in 1..Len(t) |->
        IF t[i] = " " /\ CharAt(t, i - 1) = " " THEN "" ELSE t[i]])

\* re.sub(r"[\n\r\t]+", " ", text)
NewlinesToSpace(t) ==
    LET NRT == {"\n", "\r", "\t"}
    IN Rebuild([i \in 1..Len(t) |->
        IF t[i] \in NRT
            THEN (IF CharAt(t, i - 1) \in NRT THEN "" ELSE " ")
        ELSE t[i]])

\* where r"(?<!\w)[|<u00A6><u0949>][|\s]" can match: a glyph not preceded by a word
\* character and followed by a bar or a whitespace character
OcrAt(t, i) ==
    /\ i >= 1 /\ i < Len(t)
    /\ t[i] \in {"|", BROKEN_BAR, DEVANAGARI_O}
    /\ t[i + 1] \in ({"|"} \cup Whitespace)
    /\ CharAt(t, i - 1) \notin WordChar

\* where re.sub does match: matches do not overlap, so within a run of
\* candidate positions every second one starts a match
OcrMatchStart(t, i) ==
    /\ OcrAt(t, i)
    /\ LET j == CHOOSE k \in 0..(i - 1) :
                    /\ ~OcrAt(t, k)
                    /\ \A l \in (k + 1)..(i - 1) : OcrAt(t, l)
       IN (i - 1 - j) % 2 = 0

\* re.sub(r"(?<!\w)[|<u00A6><u0949>][|\s]", " ", text)
RemoveOcr(t) ==
    Rebuild([i \in 1..Len(t) |->
        IF OcrMatchStart(t, i) THEN " "
        ELSE IF OcrMatchStart(t, i - 1) THEN ""
        ELSE t[i]])

\* the replacements dictionary; its quotation-mark entries map a character
\* to itself or have a key that holds a newline, which no text holds here
ReplaceChar(c) ==
    CASE c = FW_COLON -> ":"
      [] c = FW_COMMA -> ","
      [] c = FW_SEMICOLON -> ";"
      [] c = CJK_STOP -> "."
      [] c = FW_LPAREN -> "("
      [] c = FW_RPAREN -> ")"
      [] OTHER -> c

\* re.sub(r"[.,;:!?]{2,}", lambda m: m.group(0)[0], text)
CollapsePunct(t) ==
    LET P == {".", ",", ";", ":", "!", "?"}
    IN Rebuild([i \in 1..Len(t) |->
        IF t[i] \in P /\ CharAt(t, i - 1) \in P THEN "" ELSE t[i]])

trim_text(t) ==
    IF t = NoneStr \/ t = <<>> THEN <<>>
    ELSE LET t1 == strip(t)
             t2 == CollapseSpaces(t1)
             t3 == NewlinesToSpace(t2)
             t4 == RemoveOcr(t3)
             t5 == [i \in 1..Len(t4) |-> ReplaceChar(t4[i])]
             t6 == CollapsePunct(t5)
         IN strip(t6)

(***************************************************************************)
(* re_parser.DATE_PATTERNS: the match of each pattern at a position.  A    *)
(* match is the groups it captured, -1 for a group that took no part       *)
(* (None); month_name is given as the month MONTH_NAME_LOOKUP maps it to.  *)
(***************************************************************************)
NoMatch == [ok |-> FALSE, year |-> -1, month |-> -1, day |-> -1,
            hour |-> -1, minute |-> -1, end |-> 0]

\* (?P<hour>\d{1,2})(?::(?P<minute>\d{1,2}))? at p, the colon one of colons
HourMinuteAt(t, p, colons) ==
    LET hk == DigitRun(t, p, 2)
        q == p + hk
        mk == IF CharAt(t, q) \in colons THEN DigitRun(t, q + 1, 2) ELSE 0
    IN [hour |-> IntAt(t, p, hk),
        minute |-> IF mk > 0 THEN IntAt(t, q + 1, mk) ELSE -1,
        end |-> IF mk > 0 THEN q + 1 + mk ELSE q]

\* (?:[ T](?P<hour>\d{1,2})(?::(?P<minute>\d{1,2}))?)? at p
NumericTimeAt(t, p) ==
    IF CharAt(t, p) \in {" ", "T"} /\ IsDigitAt(t, p + 1)
        THEN HourMinuteAt(t, p + 1, {":"})
    ELSE [hour |-> -1, minute |-> -1, end |-> p]

\* the end of a greedy \s* at p
WhitespaceEnd(t, p) ==
    CHOOSE q \in p..(Len(t) + 1) :
        /\ \A k \in p..(q - 1) : t[k] \in Whitespace
        /\ CharAt(t, q) \notin Whitespace

\* (?P<year>\d{4})[-/](?P<month>\d{1,2})[-/](?P<day>\d{1,2}) and the time
IsoAt(t, i) ==
    LET mk == DigitRun(t, i + 5, 2)
        dk == DigitRun(t, i + 6 + mk, 2)
        tm == NumericTimeAt(t, i + 6 + mk + dk)
    IN IF /\ DigitRun(t, i, 4) = 4
          /\ CharAt(t, i + 4) \in {"-", "/"}
          /\ mk > 0
          /\ CharAt(t, i + 5 + mk) \in {"-", "/"}
          /\ dk > 0
       THEN [ok |-> TRUE, year |-> IntAt(t, i, 4),
             month |-> IntAt(t, i + 5, mk), day |-> IntAt(t, i + 6 + mk, dk),
             hour |-> tm.hour, minute |-> tm.minute, end |-> tm.end]
       ELSE NoMatch

\* \d{1,2}[-/]\d{1,2}[-/](?P<year>\d{4}) and the time; the first two
\* numbers are the day and the month (dayFirst) or the month and the day
NumericAt(t, i, dayFirst) ==
    LET ak == DigitRun(t, i, 2)
        bk == DigitRun(t, i + ak + 1, 2)
        y == i + ak + bk + 2
        tm == NumericTimeAt(t, y + 4)
        a == IntAt(t, i, ak)
        b == IntAt(t, i + ak + 1, bk)
    IN IF /\ ak > 0
          /\ CharAt(t, i + ak) \in {"-", "/"}
          /\ bk > 0
          /\ CharAt(t, i + ak + bk + 1) \in {"-", "/"}
          /\ DigitRun(t, y, 4) = 4
       THEN [ok |-> TRUE, year |-> IntAt(t, y, 4),
             month |-> IF dayFirst THEN b ELSE a,
             day |-> IF dayFirst THEN a ELSE b,
             hour |-> tm.hour, minute |-> tm.minute, end |-> tm.end]
       ELSE NoMatch

\* MONTH_NAME_PATTERN, each alternative as <<month, abbreviation, the
\* optional rest>>; "sept" is Sep(?:t(?:ember)?)? without its last group
MonthNames == <<
    <<1, Chars("jan"), Chars("uary")>>, <<2, Chars("feb"), Chars("ruary")>>,
    <<3, Chars("mar"), Chars("ch")>>, <<4, Chars("apr"), Chars("il")>>,
    <<5, Chars("may"), <<>>>>, <<6, Chars("jun"), Chars("e")>>,
    <<7, Chars("jul"), Chars("y")>>, <<8, Chars("aug"), Chars("ust")>>,
    <<9, Chars("sep"), Chars("tember")>>, <<10, Chars("oct"), Chars("ober")>>,
    <<11, Chars("nov"), Chars("ember")>>, <<12, Chars("dec"), Chars("ember")>>
>>

\* the month name at p under re.IGNORECASE: <<month, end>>, <<0, p>> when
\* there is none; the longest form is taken, as the optional groups are
\* greedy
MonthNameAt(t, p) ==
    IF \E k \in 1..12 : StartsWithAt(t, p, MonthNames[k][2])
    THEN LET k == CHOOSE k \in 1..12 : StartsWithAt(t, p, MonthNames[k][2])
             rest == MonthNames[k][3]
             q == p + 3
         IN IF StartsWithAt(t, q, rest) THEN <<k, q + Len(rest)>>
            ELSE IF k = 9 /\ StartsWithAt(t, q, <<"t">>) THEN <<k, q + 1>>
            ELSE <<k, q>>
    ELSE <<0, p>>

\* (?:st|nd|rd|th)? at p: its end
OrdinalEnd(t, p) ==
    IF \E w \in {Chars("st"), Chars("nd"), Chars("rd"), Chars("th")} :
           StartsWithAt(t, p, w)
    THEN p + 2 ELSE p

\* (?:,?\s+(?P<year>\d{4}))?(?:\s+(?P<hour>\d{1,2})(?::(?P<minute>\d{1,2}))?)?
YearTimeAt(t, p) ==
    LET c == IF CharAt(t, p) = "," THEN p + 1 ELSE p
        y == WhitespaceEnd(t, c)
        hasYear == y > c /\ DigitRun(t, y, 4) = 4
        p2 == IF hasYear THEN y + 4 ELSE p
        h == WhitespaceEnd(t, p2)
        hasTime == h > p2 /\ IsDigitAt(t, h)
        tm == HourMinuteAt(t, h, {":"})
    IN [year |-> IF hasYear THEN IntAt(t, y, 4) ELSE -1,
        hour |-> IF hasTime THEN tm.hour ELSE -1,
        minute |-> IF hasTime THEN tm.minute ELSE -1,
        end |-> IF hasTime THEN tm.end ELSE p2]

\* (?P<month_name>...)\s+(?P<day>\d{1,2})(?:st|nd|rd|th)? and year, time
MonthDayAt(t, i) ==
    LET mn == MonthNameAt(t, i)
        d == WhitespaceEnd(t, mn[2])
        dk == DigitRun(t, d, 2)
        yt == YearTimeAt(t, OrdinalEnd(t, d + dk))
    IN IF mn[1] > 0 /\ d > mn[2] /\ dk > 0
       THEN [ok |-> TRUE, year |-> yt.year, month |-> mn[1],
             day |-> IntAt(t, d, dk), hour |-> yt.hour,
             minute |-> yt.minute, end |-> yt.end]
       ELSE NoMatch

\* (?P<day>\d{1,2})(?:st|nd|rd|th)?\s+(?P<month_name>...) and year, time
DayMonthAt(t, i) ==
    LET dk == DigitRun(t, i, 2)
        o == OrdinalEnd(t, i + dk)
        m == WhitespaceEnd(t, o)
        mn == MonthNameAt(t, m)
        yt == YearTimeAt(t, mn[2])
    IN IF dk > 0 /\ m > o /\ mn[1] > 0
       THEN [ok |-> TRUE, year |-> yt.year, month |-> mn[1],
             day |-> IntAt(t, i, dk), hour |-> yt.hour,
             minute |-> yt.minute, end |-> yt.end]
       ELSE NoMatch

\* (?:\s*(?P<hour>\d{1,2})(?:[:<uFF1A>](?P<minute>\d{1,2}))?)? at p
ChineseTimeAt(t, p) ==
    LET h == WhitespaceEnd(t, p)
    IN IF IsDigitAt(t, h) THEN HourMinuteAt(t, h, {":", FW_COLON})
       ELSE [hour |-> -1, minute |-> -1, end |-> p]

\* (?P<month>\d{1,2})<yue>(?P<day>\d{1,2})<ri>? and the time, the year
\* group given by the caller
ChineseMonthDayAt(t, i, year) ==
    LET mk == DigitRun(t, i, 2)
        dk == DigitRun(t, i + mk + 1, 2)
        e == i + mk + 1 + dk
        tm == ChineseTimeAt(t, IF CharAt(t, e) = RI THEN e + 1 ELSE e)
    IN IF mk > 0 /\ CharAt(t, i + mk) = YUE /\ dk > 0
       THEN [ok |-> TRUE, year |-> year, month |-> IntAt(t, i, mk),
             day |-> IntAt(t, i + mk + 1, dk), hour |-> tm.hour,
             minute |-> tm.minute, end |-> tm.end]
       ELSE NoMatch

\* (?P<year>\d{2,4})<nian>(?P<month>\d{1,2})<yue>(?P<day>\d{1,2})<ri>? and
\* the time: the year takes 4, 3 or 2 digits, the most that lets <nian>
\* follow
ChineseFullAt(t, i) ==
    LET run == DigitRun(t, i, 4)
        ks == {k \in 2..4 : k <= run /\ CharAt(t, i + k) = NIAN}
    IN IF ks = {} THEN NoMatch
       ELSE LET k == CHOOSE k \in ks : TRUE
            IN ChineseMonthDayAt(t, i + k + 1, IntAt(t, i, k))

\* the patterns with the month-first one tried before the day-first one
PatternAtMonthFirst(n, t, i) ==
    CASE n = 1 -> IsoAt(t, i)
      [] n = 2 -> NumericAt(t, i, FALSE)
      [] n = 3 -> NumericAt(t, i, TRUE)
      [] n = 4 -> MonthDayAt(t, i)
      [] n = 5 -> DayMonthAt(t, i)
      [] n = 6 -> ChineseFullAt(t, i)
      [] n = 7 -> ChineseMonthDayAt(t, i, -1)

\* DATE_PATTERNS[n - 1] matched at position i
PatternAt(n, t, i) ==
    CASE n = 1 -> IsoAt(t, i)
      [] n = 2 -> NumericAt(t, i, TRUE)
      [] n = 3 -> NumericAt(t, i, FALSE)
      [] n = 4 -> MonthDayAt(t, i)
      [] n = 5 -> DayMonthAt(t, i)
      [] n = 6 -> ChineseFullAt(t, i)
      [] n = 7 -> ChineseMonthDayAt(t, i, -1)

\* the match at the rightmost position that has one
PatternSearchLast(n, t) ==
    FirstOther([i \in 1..Len(t) |-> PatternAt(n, t, Len(t) + 1 - i)], NoMatch)

\* pattern.search(text): the match at the leftmost position that has one
PatternSearch(n, t) ==
    FirstOther([i \in 1..Len(t) |-> PatternAt(n, t, i)], NoMatch)

\* the components of the match as they are, never rejected
BuildWithoutValidation(m, default_year) ==
    <<IF m.year # -1 THEN m.year ELSE default_year, m.month, m.day,
      IF m.hour # -1 THEN m.hour ELSE 0,
      IF m.minute # -1 THEN m.minute ELSE 0>>

\* re_parser._build_datetime_from_match; NoneDT when datetime() raises
_build_datetime_from_match(m, default_year) ==
    LET year == IF m.year # -1 THEN m.year ELSE default_year
        hour == IF m.hour # -1 THEN m.hour ELSE 0
        minute == IF m.minute # -1 THEN m.minute ELSE 0
    IN IF ValidDateTime(year, m.month, m.day, hour, minute)
       THEN <<year, m.month, m.day, hour, minute>>
       ELSE NoneDT

\* one turn of the loop over DATE_PATTERNS: "if not match: continue", then
\* the datetime built from the match
TryMatch(m, current_year) ==
    IF m.ok THEN _build_datetime_from_match(m, current_year) ELSE NoneDT

\* re_parser.parse_simple_date, today the value of datetime.date.today():
\* the first pattern whose match builds a datetime decides
parse_simple_date(t, today) ==
    IF t = NoneStr \/ t = <<>> THEN NoneDT
    ELSE FirstOther([n \in 1..7 |-> TryMatch(PatternSearch(n, t), Year(today))],
                    NoneDT)

(***************************************************************************)
(* The dateparser library: whether the import succeeded, and what          *)
(* dateparser.parse gives.  status is "unavailable" (ImportError),         *)
(* "raises" or "returns"; value is what it returns, NoneDT for None.       *)
(***************************************************************************)
\* re_parser.parse_date_with_dateparser: parse_simple_date is the fallback
\* when the import failed, when dateparser.parse raises and when it
\* returns None
parse_date_with_dateparser(t, today, status, value) ==
    IF t = NoneStr \/ t = <<>> THEN NoneDT
    ELSE IF status = "returns" /\ value # NoneDT THEN value
    ELSE parse_simple_date(t, today)

(***************************************************************************)
(* parser_service.ParserService                                            *)
(***************************************************************************)
\* "if parsed: return parsed", then the fallback
OrElse(parsed, fallback) == IF parsed # NoneDT THEN parsed ELSE fallback

\* ParserService._extract_datetime
_extract_datetime(t, today, status, value) ==
    OrElse(parse_date_with_dateparser(t, today, status, value),
           parse_simple_date(t, today))

\* the length of a match of r'\d{4}[-/]\d{1,2}[-/]\d{1,2}' at i, 0 for none
IsoDateLen(t, i) ==
    LET mk == DigitRun(t, i + 5, 2)
        dk == DigitRun(t, i + 6 + mk, 2)
    IN IF /\ DigitRun(t, i, 4) = 4
          /\ CharAt(t, i + 4) \in {"-", "/"}
          /\ mk > 0
          /\ CharAt(t, i + 5 + mk) \in {"-", "/"}
          /\ dk > 0
       THEN 6 + mk + dk ELSE 0

\* re.sub(r'\d{4}[-/]\d{1,2}[-/]\d{1,2}', '', t) from position p on
RECURSIVE RemoveIsoDates(_, _)
RemoveIsoDates(t, p) ==
    LET at == {i \in p..Len(t) : IsoDateLen(t, i) > 0}
    IN IF at = {} THEN SubSeq(t, p, Len(t))
       ELSE LET i == MinOf(at)
            IN SubSeq(t, p, i - 1) \o RemoveIsoDates(t, i + IsoDateLen(t, i))

\* text.split('\n')[0]
FirstLine(t) ==
    LET nl == {i \in 1..Len(t) : t[i] = "\n"}
    IN IF nl = {} THEN t ELSE SubSeq(t, 1, MinOf(nl) - 1)

\* group 1 of the leftmost match of
\* r'([^:<u3002>.!\n?]{5,100}?)[\s:<uFF1A>]*\d{4}[-/<u5E74>]', NoneStr for
\* no match
TitleBeforeDate(t) ==
    LET Excluded == {":", CJK_STOP, ".", "!", "\n", "?"}
        Separator == Whitespace \cup {":", FW_COLON}
        anchors == {k \in 1..Len(t) :
                       /\ DigitRun(t, k, 4) = 4
                       /\ CharAt(t, k + 4) \in {"-", "/", NIAN}}
        \* where the group may end: only separators up to an anchor
        ends == {g \in 1..Len(t) : \E k \in anchors :
                       g <= k /\ \A j \in g..(k - 1) : t[j] \in Separator}
        Group(i, g) == /\ g - i >= 5 /\ g - i <= 100
                       /\ \A j \in i..(g - 1) : t[j] \notin Excluded
        starts == {i \in 1..Len(t) : \E g \in ends : Group(i, g)}
    IN IF starts = {} THEN NoneStr
       ELSE LET i == MinOf(starts)
                g == MinOf({e \in ends : Group(i, e)})
            IN SubSeq(t, i, g - 1)

\* the title the first line gives: the line without its dates when the line
\* is not empty and shorter than 100 characters, <<>> when it gives none
FirstLineTitle(first_line) ==
    IF first_line # <<>> /\ Len(first_line) < 100
    THEN strip(RemoveIsoDates(first_line, 1))
    ELSE <<>>

\* the two returns of _extract_title, group the group of the second pattern
TitleOf(title, group) ==
    IF title # <<>> THEN title
    ELSE IF group # NoneStr /\ strip(group) # <<>> THEN strip(group)
    ELSE NoneStr

\* ParserService._extract_title
_extract_title(t) ==
    TitleOf(FirstLineTitle(strip(FirstLine(t))), TitleBeforeDate(t))

\* the labels of the four location patterns, in their order
LocationLabels == <<
    <<DI, DIAN>>, Chars("location"), <<DI, ZHI3>>, <<HUI, YI, DI, DIAN>> >>

\* group 1 of the leftmost match of label[:<uFF1A>]\s*([^\n,<uFF0C><u3002>;<uFF1B>]*)
\* under re.IGNORECASE, NoneStr for no match
LocationAfter(t, label) ==
    LET Delimiter == {"\n", ",", FW_COMMA, CJK_STOP, ";", FW_SEMICOLON}
        at == {i \in 1..Len(t) :
                  /\ StartsWithAt(t, i, label)
                  /\ CharAt(t, i + Len(label)) \in {":", FW_COLON}}
    IN IF at = {} THEN NoneStr
       ELSE LET b == WhitespaceEnd(t, MinOf(at) + Len(label) + 1)
                e == CHOOSE q \in b..(Len(t) + 1) :
                         /\ \A k \in b..(q - 1) : t[k] \notin Delimiter
                         /\ (q = Len(t) + 1 \/ t[q] \in Delimiter)
            IN SubSeq(t, b, e - 1)

\* one turn of the loop over the patterns: the stripped group when it is
\* not empty and shorter than 200 characters
LocationOf(group) ==
    IF group # NoneStr /\ strip(group) # <<>> /\ Len(strip(group)) < 200
    THEN strip(group)
    ELSE NoneStr

\* ParserService._extract_location
_extract_location(t) ==
    FirstOther([n \in 1..Len(LocationLabels) |->
                   LocationOf(LocationAfter(t, LocationLabels[n]))], NoneStr)

\* LocationParser.extract_location: the same four patterns, tried in the
\* same order
extract_location(t) ==
    FirstOther([n \in 1..Len(LocationLabels) |->
                   LocationOf(LocationAfter(t, LocationLabels[n]))], NoneStr)

\* _extract_description without its limit of 500 characters
DescriptionUncapped(t) == IF t # <<>> THEN t ELSE NoneStr

\* ParserService._extract_description
_extract_description(t) ==
    IF Len(t) > 500 THEN SubSeq(t, 1, 500)
    ELSE IF t # <<>> THEN t ELSE NoneStr

high_keywords == <<
    Chars("urgent"), Chars("asap"), Chars("important"), Chars("emergency"),
    <<JIN, JI>>, <<ZHONG, YAO>>, <<LI, JI2>>, <<JIN>> >>

low_keywords == <<
    Chars("optional"), Chars("whenever"), Chars("when available"),
    Chars("flexible"), <<KE, XUAN>>, <<SUI, YI4>>, <<LING, HUO>> >>

\* for keyword in keywords: if keyword in text_lower
AnyKeywordIn(keywords, text_lower) ==
    \E n \in 1..Len(keywords) : Contains(text_lower, keywords[n])

\* _extract_priority with the low keywords checked before the high ones
LowBeforeHigh(t) ==
    IF t = NoneStr THEN "MEDIUM"
    ELSE IF AnyKeywordIn(low_keywords, lower(t)) THEN "LOW"
    ELSE IF AnyKeywordIn(high_keywords, lower(t)) THEN "HIGH"
    ELSE "MEDIUM"

\* ParserService._extract_priority; None.lower() raises AttributeError,
\* which the function catches
_extract_priority(t) ==
    IF t = NoneStr THEN "MEDIUM"
    ELSE IF AnyKeywordIn(high_keywords, lower(t)) THEN "HIGH"
    ELSE IF AnyKeywordIn(low_keywords, lower(t)) THEN "LOW"
    ELSE "MEDIUM"

UntitledEvent == Chars("Untitled Event")

\* the Event with an end_time equal to its start_time
NewEventEndingAtStart(title, parsed_date, location, description, priority) ==
    [title |-> title,
     start_time |-> parsed_date,
     end_time |-> parsed_date,
     location |-> location,
     description |-> description,
     priority |-> priority,
     reminder_minutes |-> 15]

\* Event(...) of step 9 with the end_time of step 7; its end_time is NoneDT
\* when the addition overflows
NewEvent(title, parsed_date, location, description, priority) ==
    [title |-> title,
     start_time |-> parsed_date,
     end_time |-> PlusOneHour(parsed_date),
     location |-> location,
     description |-> description,
     priority |-> priority,
     reminder_minutes |-> 15]

\* step 3: "if not parsed_date: parsed_date = datetime.now()"
DateOrNow(parsed_date, clock) ==
    IF parsed_date = NoneDT THEN clock ELSE parsed_date

\* step 4: "if not title: title = 'Untitled Event'"
TitleOrDefault(title) == IF title = NoneStr THEN UntitledEvent ELSE title

\* steps 3 to 9 of ParserService.parse on the cleaned text
BuildEvent(cleaned_text, clock, status, value) ==
    NewEvent(TitleOrDefault(_extract_title(cleaned_text)),
             DateOrNow(_extract_datetime(cleaned_text, clock, status, value),
                       clock),
             _extract_location(cleaned_text),
             _extract_description(cleaned_text),
             _extract_priority(cleaned_text))

\* step 1 without the test of text.strip()
IsEmptyTextWithoutStrip(t) == t = NoneStr \/ t = <<>>

\* step 1 of ParserService.parse: not text or text.strip() == ""
IsEmptyText(t) == t = NoneStr \/ t = <<>> \/ strip(t) = <<>>

\* an end of ParserService.parse that returns the empty list
ParseOutcomeDropping(event) == [pc |-> "returned", exc |-> "", ret |-> <<>>]

\* the end of ParserService.parse: the exception of step 7 is raised again,
\* otherwise the list of the one event is returned
ParseOutcome(event) ==
    IF event.end_time = NoneDT
        THEN [pc |-> "raised", exc |-> "OverflowError", ret |-> <<>>]
    ELSE [pc |-> "returned", exc |-> "", ret |-> <<event>>]

\* a parse that reads the clock in the timezone asked for, eight hours ahead
ParseInTimezone(t, tz, clock, status, value) ==
    IF IsEmptyText(t)
        THEN [pc |-> "raised", exc |-> "ValueError", ret |-> <<>>]
    ELSE ParseOutcome(BuildEvent(trim_text(t),
             IF tz = NoneStr THEN clock
             ELSE <<clock[1], clock[2], clock[3], (clock[4] + 8) % 24,
                    clock[5]>>,
             status, value))

\* ParserService.parse: what the call returns or raises
parse(t, tz, clock, status, value) ==
    IF IsEmptyText(t)
        THEN [pc |-> "raised", exc |-> "ValueError", ret |-> <<>>]
    ELSE ParseOutcome(BuildEvent(trim_text(t), clock, status, value))

(***************************************************************************)
(* parser.event_parser.EventParser.extract_event_number                    *)
(***************************************************************************)
\* the end of a match of r'\n\s*\d+\.' at i (the position after it), 0
\* for none
NumberedItemEnd(t, i) ==
    LET d == WhitespaceEnd(t, i + 1)
        k == DigitRun(t, d, Len(t))
    IN IF CharAt(t, i) = "\n" /\ k > 0 /\ CharAt(t, d + k) = "."
       THEN d + k + 1 ELSE 0

\* the end of a match of r'\n\n+' at i, 0 for none
BlankLineEnd(t, i) ==
    IF CharAt(t, i) = "\n" /\ CharAt(t, i + 1) = "\n"
    THEN CHOOSE q \in (i + 2)..(Len(t) + 1) :
             /\ \A k \in i..(q - 1) : t[k] = "\n"
             /\ CharAt(t, q) # "\n"
    ELSE 0

SeparatorEnd(numbered, t, i) ==
    IF numbered THEN NumberedItemEnd(t, i) ELSE BlankLineEnd(t, i)

\* re.split(pattern, t) from position p on
RECURSIVE SplitFrom(_, _, _)
SplitFrom(numbered, t, p) ==
    LET at == {i \in p..Len(t) : SeparatorEnd(numbered, t, i) > 0}
    IN IF at = {} THEN <<SubSeq(t, p, Len(t))>>
       ELSE LET i == MinOf(at)
            IN <<SubSeq(t, p, i - 1)>>
                   \o SplitFrom(numbered, t, SeparatorEnd(numbered, t, i))

\* the parts that are not blank, kept as they are
PartsNotStripped(parts) ==
    SelectSeq(parts, LAMBDA part : strip(part) # <<>>)

\* [p.strip() for p in parts if p.strip()]
StrippedParts(parts) ==
    LET stripped == [n \in 1..Len(parts) |-> strip(parts[n])]
    IN SelectSeq(stripped, LAMBDA part : part # <<>>)

\* the two rules tried in the other order
EventPartsBlankLineFirst(t) ==
    IF \E i \in 1..Len(t) : BlankLineEnd(t, i) > 0
        THEN StrippedParts(SplitFrom(FALSE, t, 1))
    ELSE IF \E i \in 1..Len(t) : NumberedItemEnd(t, i) > 0
        THEN StrippedParts(SplitFrom(TRUE, t, 1))
    ELSE <<>>

\* the parts of the branch taken: the numbered items when the text has one,
\* else the paragraphs when it has a blank line
EventParts(t) ==
    IF \E i \in 1..Len(t) : NumberedItemEnd(t, i) > 0
        THEN StrippedParts(SplitFrom(TRUE, t, 1))
    ELSE IF \E i \in 1..Len(t) : BlankLineEnd(t, i) > 0
        THEN StrippedParts(SplitFrom(FALSE, t, 1))
    ELSE <<>>

\* "if not events: events = [text.strip()]"
PartsOrWhole(events, whole) == IF events = <<>> THEN <<whole>> ELSE events

\* EventParser.extract_event_number
extract_event_number(t) ==
    IF IsEmptyText(t) THEN <<>> ELSE PartsOrWhole(EventParts(t), strip(t))

(***************************************************************************)
(* parser.datetime_parser.DateTimeParser.extract_datetime_range            *)
(***************************************************************************)
\* no match of range_pattern
NoRange == [ok |-> FALSE, first |-> <<>>, second |-> <<>>, end |-> 0]

\* the match of range_pattern at i: the two dates it captured and its end,
\* ok FALSE for none
DateRangeAt(t, i) ==
    LET l1 == IsoDateLen(t, i)
        s == WhitespaceEnd(t, i + l1)
        afterSep == IF CharAt(t, s) \in {"-", "~"} THEN s + 1
                    ELSE IF CharAt(t, s) = "t" /\ CharAt(t, s + 1) = "o"
                        THEN s + 2
                    ELSE 0
        b == WhitespaceEnd(t, afterSep)
        l2 == IsoDateLen(t, b)
    IN IF l1 > 0 /\ afterSep > 0 /\ l2 > 0
       THEN [ok |-> TRUE, first |-> SubSeq(t, i, i + l1 - 1),
             second |-> SubSeq(t, b, b + l2 - 1), end |-> b + l2]
       ELSE NoRange

\* re.search(range_pattern, text)
DateRangeSearch(t) ==
    FirstOther([i \in 1..Len(t) |-> DateRangeAt(t, i)], NoRange)

\* re.search(r"(\d{1,2}):(\d{1,2})", t): <<hour, minute>>, <<>> for no
\* match
TimeSearch(t) ==
    LET Is(i) == /\ IsDigitAt(t, i)
                 /\ CharAt(t, i + DigitRun(t, i, 2)) = ":"
                 /\ IsDigitAt(t, i + DigitRun(t, i, 2) + 1)
        at == {i \in 1..Len(t) : Is(i)}
    IN IF at = {} THEN <<>>
       ELSE LET tm == HourMinuteAt(t, MinOf(at), {":"})
            IN <<tm.hour, tm.minute>>

\* the match of time_range_pattern at i: <<hour, minute, hour, minute>>,
\* <<>> for none
TimeRangeAt(t, i) ==
    LET a == HourMinuteAt(t, i, {":"})
        s == WhitespaceEnd(t, a.end)
        b == WhitespaceEnd(t, s + 1)
        c == HourMinuteAt(t, b, {":"})
    IN IF /\ IsDigitAt(t, i) /\ a.minute # -1
          /\ CharAt(t, s) \in {"-", "~", DAO, ZHI}
          /\ IsDigitAt(t, b) /\ c.minute # -1
       THEN <<a.hour, a.minute, c.hour, c.minute>>
       ELSE <<>>

\* re.search(time_range_pattern, text)
TimeRangeSearch(t) ==
    FirstOther([i \in 1..Len(t) |-> TimeRangeAt(t, i)], <<>>)

\* an exception raised inside extract_datetime_range
Raised == <<"raise">>

\* "if start_time:" of the branch "Pattern 1": the start with the time
\* found after the range; NoneDT when replace() raises
RangeStart(first, time_match) ==
    IF first # NoneDT /\ time_match # <<>>
    THEN ReplaceTime(first, time_match[1], time_match[2])
    ELSE first

\* the end of the range as it was parsed
RangeEndAsParsed(end_time) == end_time

\* a range that ends at midnight ends at 23:59
RangeEnd(end_time) ==
    IF Hour(end_time) = 0 /\ Minute(end_time) = 0
    THEN ReplaceTime(end_time, 23, 59) ELSE end_time

\* "if end_time and start_time:" of the branch "Pattern 1"; <<>> when the
\* function goes on to "Pattern 2"
RangeResult(first, start_time, end_time) ==
    IF first # NoneDT /\ start_time = NoneDT THEN Raised
    ELSE IF end_time # NoneDT /\ start_time # NoneDT
        THEN <<start_time, RangeEnd(end_time)>>
    ELSE <<>>

RangeOf(first, end_time, time_match) ==
    RangeResult(first, RangeStart(first, time_match), end_time)

\* "if range_match:" with its body
RangeFrom(m, t, today) ==
    IF ~m.ok THEN <<>>
    ELSE RangeOf(parse_simple_date(m.first, today),
                 parse_simple_date(m.second, today),
                 TimeSearch(Slice(t, m.end, m.end + 19)))

\* the branch "Pattern 1"
DateRangeBranch(t, today) == RangeFrom(DateRangeSearch(t), t, today)

\* the end kept on the day of the start
EndOnSameDay(start_time, same_day) ==
    IF same_day = NoneDT THEN Raised ELSE <<start_time, same_day>>

\* "if end_time < start_time: end_time += timedelta(days=1)" and the return
EndAfter(start_time, same_day) ==
    IF same_day = NoneDT THEN Raised
    ELSE IF ~Before(same_day, start_time) THEN <<start_time, same_day>>
    ELSE IF PlusOneDay(same_day) = NoneDT THEN Raised
    ELSE <<start_time, PlusOneDay(same_day)>>

\* the two replace() calls of "if time_range_match:"
TimeRangeOn(start_time, r) ==
    IF start_time = NoneDT THEN Raised
    ELSE EndAfter(start_time, ReplaceTime(start_time, r[3], r[4]))

\* "if start_time:" of the branch "Pattern 2" and the default return, r the
\* groups of time_range_match
TimesOn(anchor, r) ==
    IF anchor = NoneDT THEN <<NoneDT, NoneDT>>
    ELSE IF r = <<>> THEN <<anchor, NoneDT>>
    ELSE TimeRangeOn(ReplaceTime(anchor, r[1], r[2]), r)

\* the branch "Pattern 2" and the default return
SingleDateBranch(t, today, status, value) ==
    TimesOn(OrElse(parse_date_with_dateparser(t, today, status, value),
                   parse_simple_date(t, today)),
            TimeRangeSearch(t))

\* "Pattern 2" is reached when "Pattern 1" has not returned
OrBranch(first, second) == IF first # <<>> THEN first ELSE second

\* "except Exception: return None, None"
Caught(r) == IF r = Raised THEN <<NoneDT, NoneDT>> ELSE r

\* DateTimeParser.extract_datetime_range: <<start, end>>
extract_datetime_range(t, tz, today, status, value) ==
    IF t = NoneStr \/ t = <<>> THEN <<NoneDT, NoneDT>>
    ELSE Caught(OrBranch(DateRangeBranch(t, today),
                         SingleDateBranch(t, today, status, value)))

(***************************************************************************)
(* PriorityParser.extract_priority (parser/priority_parser.py)             *)
(***************************************************************************)
extract_priority(t) ==
    IF t = NoneStr THEN "MEDIUM"
    ELSE IF AnyKeywordIn(high_keywords, lower(t)) THEN "HIGH"
    ELSE IF AnyKeywordIn(low_keywords, lower(t)) THEN "LOW"
    ELSE "MEDIUM"

(***************************************************************************)
(* api.upload_text                                                         *)
(***************************************************************************)
\* the two decimal digits of n < 100
Digits2(n) ==
    LET Digit1(k) == SubSeq("0123456789", k + 1, k + 1)
    IN <<Digit1(n \div 10), Digit1(n % 10)>>

\* datetime.isoformat(), the seconds not modelled
isoformat(dt) ==
    Digits2(Year(dt) \div 100) \o Digits2(Year(dt) % 100) \o <<"-">>
        \o Digits2(Month(dt)) \o <<"-">> \o Digits2(Day(dt)) \o <<"T">>
        \o Digits2(Hour(dt)) \o <<":">> \o Digits2(Minute(dt))

\* EventPriority.value
PriorityValue(p) ==
    CASE p = "LOW" -> "u4F4E" [] p = "MEDIUM" -> "u4E2D" [] p = "HIGH" -> "u9AD8"

\* Event.to_dict, without duration_hours
to_dict(e) ==
    [title |-> e.title,
     start_time |-> isoformat(e.start_time),
     end_time |-> isoformat(e.end_time),
     location |-> e.location,
     description |-> e.description,
     priority |-> PriorityValue(e.priority),
     reminder_minutes |-> e.reminder_minutes]

\* timezone or "default"
TimezoneOrDefault(tz) ==
    IF tz = NoneStr \/ tz = <<>> THEN Chars("default") ELSE tz

\* raise HTTPException(status_code=code, ...)
Failure(code, tz) ==
    [pc |-> "raised", exc |-> "HTTPException",
     ret |-> [status_code |-> code, success |-> FALSE, count |-> 0,
              timezone |-> TimezoneOrDefault(tz), events |-> <<>>]]

\* what upload_text makes of the outcome r of ParserService.parse: the
\* exception handlers, the response "No events could be extracted" for an
\* empty list and the response of success
Response(r, tz) ==
    IF r.pc = "raised"
        THEN (IF r.exc = "ValueError" THEN Failure(400, tz)
              ELSE Failure(500, tz))
    ELSE [pc |-> "returned", exc |-> "",
          ret |-> [status_code |-> 200, success |-> r.ret # <<>>,
                   count |-> Len(r.ret),
                   timezone |-> TimezoneOrDefault(tz),
                   events |-> [n \in 1..Len(r.ret) |-> to_dict(r.ret[n])]]]

\* api.upload_text: the JSON response, or the HTTPException it raises
upload_text(t, tz, clock, status, value) ==
    IF IsEmptyText(t) THEN Failure(400, tz)
    ELSE Response(parse(t, tz, clock, status, value), tz)

(***************************************************************************)
(* services.ics_service.ICSService                                         *)
(***************************************************************************)
\* the parts from part n on with sep between them
RECURSIVE JoinFrom(_, _, _)
JoinFrom(sep, parts, n) ==
    IF n > Len(parts) THEN <<>>
    ELSE IF n = Len(parts) THEN parts[n]
    ELSE parts[n] \o sep \o JoinFrom(sep, parts, n + 1)

\* sep.join(parts)
join(sep, parts) == JoinFrom(sep, parts, 1)

\* str.replace(old, new) for one character old
replace(t, old, new) ==
    join(<<>>, [i \in 1..Len(t) |-> IF t[i] = old THEN new ELSE <<t[i]>>])

\* the part of t from position i split on the character sep
RECURSIVE SplitOn(_, _, _)
SplitOn(t, sep, i) ==
    LET j == MinOf({k \in i..Len(t) : t[k] = sep} \cup {Len(t) + 1})
    IN IF j > Len(t) THEN <<SubSeq(t, i, Len(t))>>
       ELSE <<SubSeq(t, i, j - 1)>> \o SplitOn(t, sep, j + 1)

\* str.split(sep) for one character sep
split(t, sep) == SplitOn(t, sep, 1)

\* str.rstrip(c) for one character c
rstrip(t, c) ==
    LET keep == CHOOSE n \in 0..Len(t) :
                    /\ \A k \in (n + 1)..Len(t) : t[k] = c
                    /\ n > 0 => t[n] # c
    IN SubSeq(t, 1, keep)

\* str(n) for a natural number n
RECURSIVE Decimal(_)
Decimal(n) ==
    IF n < 10 THEN <<SubSeq("0123456789", n + 1, n + 1)>>
    ELSE Decimal(n \div 10) \o Decimal(n % 10)

\* "if text", "if event.location": neither None nor empty
Truthy(t) == t # NoneStr /\ t # <<>>

\* reminder_minutes is None; the code treats None like every value that is
\* not positive
NoReminder == -1

\* strftime("%Y%m%dT%H%M%SZ"), the seconds not modelled
strftime(dt) ==
    Digits2(Year(dt) \div 100) \o Digits2(Year(dt) % 100)
        \o Digits2(Month(dt)) \o Digits2(Day(dt)) \o <<"T">>
        \o Digits2(Hour(dt)) \o Digits2(Minute(dt)) \o Chars("00Z")

\* ICSService._format_datetime of a naive datetime, which is taken as UTC
_format_datetime(dt) == strftime(dt)

\* int(event.start_time.timestamp()), the naive datetime taken as UTC
timestamp(dt) ==
    (DayNumber(dt) - DayNumber(<<1970, 1, 1, 0, 0>>)) * 86400
        + Hour(dt) * 3600 + Minute(dt) * 60

\* ICSService._generate_uid, unique_id being uuid.uuid4().hex[:8]
_generate_uid(event, unique_id) ==
    unique_id \o <<"-">> \o Decimal(timestamp(event.start_time))
        \o Chars("@easy-ics.local")

\* ICSService._escape_text: the backslash first, then ";" and ","
_escape_text(t) ==
    IF ~Truthy(t) THEN <<>>
    ELSE replace(replace(replace(t, "\\", Chars("\\\\")), ";", Chars("\\;")),
                 ",", Chars("\\,"))

\* ICSService._get_priority_value
_get_priority_value(event) ==
    CASE event.priority = "LOW" -> 1
      [] event.priority = "MEDIUM" -> 5
      [] event.priority = "HIGH" -> 9

\* ICSService._build_valarm
_build_valarm(reminder_minutes) ==
    <<Chars("BEGIN:VALARM"), Chars("ACTION:DISPLAY"),
      Chars("TRIGGER:-PT") \o Decimal(reminder_minutes) \o <<"M">>,
      Chars("DESCRIPTION:Event Reminder"), Chars("END:VALARM")>>

\* ICSService._build_vcalendar_header, clock the value of datetime.now
_build_vcalendar_header(clock) ==
    <<Chars("BEGIN:VCALENDAR"), Chars("VERSION:2.0"),
      Chars("PRODID:-//Easy ICS//Easy ICS v1.0//CH"),
      Chars("CALSCALE:GREGORIAN"), Chars("METHOD:PUBLISH"),
      Chars("X-WR-CALNAME:Easy ICS Calendar"), Chars("X-WR-TIMEZONE:UTC"),
      Chars("DTSTAMP:") \o strftime(clock), Chars("BEGIN:VTIMEZONE"),
      Chars("TZID:UTC"), Chars("BEGIN:STANDARD"),
      Chars("DTSTART:19700101T000000"), Chars("TZOFFSETFROM:+0000"),
      Chars("TZOFFSETTO:+0000"), Chars("TZNAME:UTC"), Chars("END:STANDARD"),
      Chars("END:VTIMEZONE")>>

\* ICSService._build_vevent: the lines of one VEVENT block
_build_vevent(event, unique_id, clock) ==
    <<Chars("BEGIN:VEVENT"),
      Chars("UID:") \o _generate_uid(event, unique_id),
      Chars("DTSTAMP:") \o strftime(clock),
      Chars("DTSTART:") \o _format_datetime(event.start_time),
      Chars("DTEND:") \o _format_datetime(event.end_time),
      Chars("CREATED:") \o strftime(clock),
      Chars("LAST-MODIFIED:") \o strftime(clock),
      Chars("SUMMARY:") \o _escape_text(event.title)>>
        \o (IF Truthy(event.location)
            THEN <<Chars("LOCATION:") \o _escape_text(event.location)>>
            ELSE <<>>)
        \o (IF Truthy(event.description)
            THEN <<Chars("DESCRIPTION:") \o _escape_text(event.description)>>
            ELSE <<>>)
        \o <<Chars("STATUS:CONFIRMED"),
             Chars("PRIORITY:") \o Decimal(_get_priority_value(event))>>
        \o (IF event.reminder_minutes # NoReminder
               /\ event.reminder_minutes > 0
            THEN _build_valarm(event.reminder_minutes)
            ELSE <<>>)
        \o <<Chars("END:VEVENT")>>

\* ICSService.generate_ics: the content, or the ValueError for no events;
\* unique_ids[n] is the uuid drawn for event n
generate_ics(events, unique_ids, clock) ==
    IF events = <<>>
        THEN [pc |-> "raised", exc |-> "ValueError", ret |-> <<>>]
    ELSE [pc |-> "returned", exc |-> "",
          ret |-> join(Chars("\r\n"),
                       _build_vcalendar_header(clock)
                           \o join(<<>>, [n \in 1..Len(events) |->
                                  _build_vevent(events[n], unique_ids[n],
                                                clock)])
                           \o <<Chars("END:VCALENDAR")>>)]

\* datetime.strptime for the formats "%Y%m%dT%H%M%SZ" (15 characters and
\* "Z"), "%Y%m%dT%H%M%S" and "%Y%m%d", the fields of full width as strftime
\* writes them; NoneDT for the ValueError
strptime(s, with_time, with_z) ==
    LET digits == IF with_time THEN (1..8) \cup (10..15) ELSE 1..8
        length == IF with_z THEN 16 ELSE IF with_time THEN 15 ELSE 8
        hour == IF with_time THEN IntAt(s, 10, 2) ELSE 0
        minute == IF with_time THEN IntAt(s, 12, 2) ELSE 0
    IN IF /\ Len(s) = length
          /\ \A i \in digits : s[i] \in Digit
          /\ with_time => s[9] = "T"
          /\ with_z => s[16] = "Z"
          /\ with_time => IntAt(s, 14, 2) <= 61
          /\ ValidDateTime(IntAt(s, 1, 4), IntAt(s, 5, 2), IntAt(s, 7, 2),
                           hour, minute)
       THEN <<IntAt(s, 1, 4), IntAt(s, 5, 2), IntAt(s, 7, 2), hour, minute>>
       ELSE NoneDT

\* ICSService._parse_datetime: datetime.now() when strptime raises
_parse_datetime(dt_str, clock) ==
    LET s == strip(dt_str)
        parsed == IF s # <<>> /\ s[Len(s)] = "Z" THEN strptime(s, TRUE, TRUE)
                  ELSE IF \E i \in 1..Len(s) : s[i] = "T"
                      THEN strptime(s, TRUE, FALSE)
                  ELSE strptime(s, FALSE, FALSE)
    IN IF parsed = NoneDT THEN clock ELSE parsed

\* ICSService._parse_priority
_parse_priority(priority_value) ==
    IF priority_value >= 7 THEN "HIGH"
    ELSE IF priority_value >= 4 THEN "MEDIUM"
    ELSE "LOW"

\* event_data.get(key, default), the dict a function of its keys
DictGet(d, key, default) == IF key \in DOMAIN d THEN d[key] ELSE default

\* the title of an event without SUMMARY
UnnamedEvent == <<"u672A", "u547D", "u540D", "u4E8B", "u4EF6">>

\* ICSService._parse_vevent: <<the Event>>, or <<>> when int() raises;
\* int() takes digits after an optional sign, spaces around them stripped
_parse_vevent(event_data, clock) ==
    LET priority_value == strip(DictGet(event_data, Chars("PRIORITY"), <<"5">>))
        signed == priority_value # <<>> /\ priority_value[1] \in {"-", "+"}
        digits == IF signed THEN Tail(priority_value) ELSE priority_value
        number == IF signed /\ priority_value[1] = "-"
                  THEN 0 - IntAt(digits, 1, Len(digits))
                  ELSE IntAt(digits, 1, Len(digits))
    IN IF digits = <<>> \/ \E i \in 1..Len(digits) : digits[i] \notin Digit
       THEN <<>>
       ELSE <<[title |-> DictGet(event_data, Chars("SUMMARY"), UnnamedEvent),
               start_time |-> _parse_datetime(
                   DictGet(event_data, Chars("DTSTART"), <<>>), clock),
               end_time |-> _parse_datetime(
                   DictGet(event_data, Chars("DTEND"), <<>>), clock),
               location |-> DictGet(event_data, Chars("LOCATION"), NoneStr),
               description |->
                   DictGet(event_data, Chars("DESCRIPTION"), NoneStr),
               priority |-> _parse_priority(number),
               reminder_minutes |-> NoReminder]>>

\* "line = line.strip().rstrip('\r')"
CleanLine(raw) == rstrip(strip(raw), "\r")

\* "key, value = line.split(':', 1)" with the parameters after ";" dropped
\* from the key; <<>> for a line without ":"
LineItem(line) ==
    LET colon == MinOf({i \in 1..Len(line) : line[i] = ":"}
                           \cup {Len(line) + 1})
    IN IF colon > Len(line) THEN <<>>
       ELSE <<Head(split(SubSeq(line, 1, colon - 1), ";")),
              SubSeq(line, colon + 1, Len(line))>>

\* the last line before line e that is BEGIN:VEVENT or END:VEVENT, 0 for
\* none: it decides in_vevent at line e
LastMark(lines, e) ==
    LET marks == {i \in 1..(e - 1) :
                     lines[i] \in {Chars("BEGIN:VEVENT"), Chars("END:VEVENT")}}
    IN IF marks = {} THEN 0
       ELSE CHOOSE i \in marks : \A j \in marks : j <= i

\* event_data when the loop reaches line e, the block having begun at
\* line b: every line between them that has a ":" has set its key, the
\* last one that sets a key gives its value
EventData(lines, b, e) ==
    LET items == {i \in (b + 1)..(e - 1) : LineItem(lines[i]) # <<>>}
    IN [key \in {LineItem(lines[i])[1] : i \in items} |->
           LineItem(lines[
               CHOOSE i \in items :
                   /\ LineItem(lines[i])[1] = key
                   /\ \A j \in items :
                          LineItem(lines[j])[1] = key => j <= i])[2]]

\* what the turn of the loop for line e appends to events: the Event of the
\* block that an END:VEVENT line closes, when in_vevent holds, event_data
\* is not empty and _parse_vevent does not raise
EventAt(lines, e, clock) ==
    IF lines[e] = Chars("END:VEVENT")
           /\ LastMark(lines, e) > 0
           /\ lines[LastMark(lines, e)] = Chars("BEGIN:VEVENT")
           /\ DOMAIN EventData(lines, LastMark(lines, e), e) # {}
    THEN _parse_vevent(EventData(lines, LastMark(lines, e), e), clock)
    ELSE <<>>

\* the loop of parse_ics over the cleaned lines: the events in the order of
\* the lines that close them
ParseLines(lines, clock) ==
    LET appended == SelectSeq([e \in 1..Len(lines) |->
                                  EventAt(lines, e, clock)],
                              LAMBDA x : x # <<>>)
    IN [n \in 1..Len(appended) |-> appended[n][1]]

\* "lines = ics_content.strip().split('\n')", each line cleaned
CleanLines(ics_content) ==
    LET raw == split(strip(ics_content), "\n")
    IN [n \in 1..Len(raw) |-> CleanLine(raw[n])]

\* ICSService.parse_ics: the events, or the ValueError for no content
parse_ics(ics_content, clock) ==
    IF ~Truthy(ics_content)
        THEN [pc |-> "raised", exc |-> "ValueError", ret |-> <<>>]
    ELSE [pc |-> "returned", exc |-> "",
          ret |-> ParseLines(CleanLines(ics_content), clock)]

(***************************************************************************)
(* dateparser_parser.DateParserService                                     *)
(***************************************************************************)
\* whether the characters of w stand at i
LiteralAt(t, i, w) ==
    /\ i >= 1
    /\ i + Len(w) - 1 <= Len(t)
    /\ \A k \in 1..Len(w) : t[i + k - 1] = w[k]

\* the length of the first word of ws that stands at i, 0 when none does:
\* an alternation of literals
AlternationLen(t, i, ws) ==
    IF \A n \in 1..Len(ws) : ~LiteralAt(t, i, ws[n]) THEN 0
    ELSE Len(ws[MinOf({n \in 1..Len(ws) : LiteralAt(t, i, ws[n])})])

\* the fullwidth comma, the ideographic full stop, the fullwidth
\* exclamation and question marks and the ideographic comma: the class
\* [^...] of the location patterns excludes them
ClauseEnds == {"uFF0C", "u3002", "uFF01", "uFF1F", "u3001"}

\* where a greedy [^...]* that starts at p ends: the first clause end at or
\* after p, or the end of the text
ClauseEnd(t, p) ==
    MinOf({j \in p..(Len(t) + 1) : CharAt(t, j) \in ClauseEnds \/ j = Len(t) + 1})

\* a service object: "self.timezone = timezone or 'UTC'"
DateParserService(tz) ==
    [timezone |-> IF Truthy(tz) THEN tz ELSE Chars("UTC"),
     default_hour |-> 9, default_minute |-> 0]

\* "_dateparser_service: Optional[DateParserService] = None": <<>> for
\* None, <<service>> for a service
NoService == <<>>

\* parse_datetime: dateparser.parse(text, settings=...) returns value or
\* raises (status); a raise and a falsy return give None
parse_datetime(status, value) ==
    IF status = "returns" THEN value ELSE NoneDT

\* whether r'(\d+)\s*<u4E2A>?<u5C0F><u65F6>' matches at i
HoursAt(t, i) ==
    LET q == WhitespaceEnd(t, i + DigitRun(t, i, Len(t)))
        r == IF CharAt(t, q) = "u4E2A" THEN q + 1 ELSE q
    IN IsDigitAt(t, i) /\ LiteralAt(t, r, <<"u5C0F", "u65F6">>)

\* whether r'(\d+)\s*<u5206><u949F>' matches at i
MinutesAt(t, i) ==
    /\ IsDigitAt(t, i)
    /\ LiteralAt(t, WhitespaceEnd(t, i + DigitRun(t, i, Len(t))),
                 <<"u5206", "u949F">>)

\* int(match.group(1)) of the leftmost match
FirstNumber(t, at) == IntAt(t, MinOf(at), DigitRun(t, MinOf(at), Len(t)))

\* extract_duration
extract_duration(t) ==
    LET hours == {i \in 1..Len(t) : HoursAt(t, i)}
        minutes == {i \in 1..Len(t) : MinutesAt(t, i)}
    IN IF hours # {} THEN FirstNumber(t, hours) * 60
       ELSE IF minutes # {} THEN FirstNumber(t, minutes)
       ELSE 60

\* the length of the match at i of a literal prefix followed by
\* r'[^...]+' (a r'\s*' between them matches what the class matches too),
\* 0 for no match
PrefixedClauseLen(t, i, prefix) ==
    IF LiteralAt(t, i, prefix) /\ ClauseEnd(t, i + Len(prefix)) > i + Len(prefix)
        THEN ClauseEnd(t, i + Len(prefix)) - i
    ELSE 0

\* the length of the match at i of r'<u5730><u70B9>[<uFF1A>:]' and the
\* clause after it
PlaceLabelLen(t, i) ==
    IF LiteralAt(t, i, <<DI, DIAN>>) /\ CharAt(t, i + 2) \in {FW_COLON, ":"}
            /\ ClauseEnd(t, i + 3) > i + 3
        THEN ClauseEnd(t, i + 3) - i
    ELSE 0

\* the end of a greedy [A-Z0-9]* at p
RECURSIVE RoomCodeEnd(_, _)
RoomCodeEnd(t, p) ==
    IF CharAt(t, p) \in Upper \cup Digit THEN RoomCodeEnd(t, p + 1)
    ELSE p

\* the length of the match at i of r'<u4F1A><u8BAE><u5BA4>[A-Z0-9]+'
MeetingRoomLen(t, i) ==
    IF LiteralAt(t, i, <<HUI, YI, "u5BA4">>) /\ RoomCodeEnd(t, i + 3) > i + 3
        THEN RoomCodeEnd(t, i + 3) - i
    ELSE 0

\* online, remote, telephone, video
SpecialPlaces ==
    << <<"u7EBF", "u4E0A">>, <<"u8FDC", "u7A0B">>, <<"u7535", "u8BDD">>,
       <<"u89C6", "u9891">> >>

\* the length of the match at i of location_patterns[n], and how many
\* characters of it stand before group 1
LocationMatch(t, i, n) ==
    IF n = 1 THEN [len |-> PrefixedClauseLen(t, i, <<"u5728">>), skip |-> 1]
    ELSE IF n = 2
        THEN [len |-> PrefixedClauseLen(t, i, <<"u4F4D", "u4E8E">>), skip |-> 2]
    ELSE IF n = 3 THEN [len |-> PlaceLabelLen(t, i), skip |-> 3]
    ELSE IF n = 4 THEN [len |-> MeetingRoomLen(t, i), skip |-> 0]
    ELSE IF n = 5
        THEN [len |-> PrefixedClauseLen(t, i, <<"u697C", "u4E0B">>), skip |-> 0]
    ELSE [len |-> AlternationLen(t, i, SpecialPlaces), skip |-> 0]

\* match.group(1).strip() of re.search(location_patterns[n], text),
\* NoneStr for no match
LocationBy(t, n) ==
    LET at == {i \in 1..Len(t) : LocationMatch(t, i, n).len > 0}
    IN IF at = {} THEN NoneStr
       ELSE strip(SubSeq(t, MinOf(at) + LocationMatch(t, MinOf(at), n).skip,
                         MinOf(at) + LocationMatch(t, MinOf(at), n).len - 1))

\* extract_location
DateParserService_extract_location(t) == FirstOther([n \in 1..6 |-> LocationBy(t, n)], NoneStr)

\* re.sub(pattern, '', t) from p on, lens[i] being the length of the match
\* of the pattern at i, 0 for no match
RECURSIVE RemoveSpans(_, _, _)
RemoveSpans(t, lens, p) ==
    LET at == {i \in p..Len(t) : lens[i] > 0}
    IN IF at = {} THEN SubSeq(t, p, Len(t))
       ELSE SubSeq(t, p, MinOf(at) - 1)
                \o RemoveSpans(t, lens, MinOf(at) + lens[MinOf(at)])

\* tomorrow, today, yesterday, the day after tomorrow
DayWords ==
    << <<"u660E", "u5929">>, <<"u4ECA", "u5929">>, <<"u6628", "u5929">>,
       <<"u540E", "u5929">> >>

\* next week, last week, this week, next month, last month
PeriodWords ==
    << <<"u4E0B", "u5468">>, <<"u4E0A", "u5468">>, <<"u8FD9", "u5468">>,
       <<"u4E0B", "u4E2A", YUE>>, <<"u4E0A", "u4E2A", YUE>> >>

\* the numerals one to six and the character for day
WeekdayNumerals ==
    {"u4E00", "u4E8C", "u4E09", "u56DB", "u4E94", "u516D", RI}

\* r'(<u5468>[...]|<u661F><u671F>[...])'
WeekdayLen(t, i) ==
    IF CharAt(t, i) = "u5468" /\ CharAt(t, i + 1) \in WeekdayNumerals THEN 2
    ELSE IF LiteralAt(t, i, <<"u661F", "u671F">>)
                /\ CharAt(t, i + 2) \in WeekdayNumerals THEN 3
    ELSE 0

\* r'(\d{1,4}[-/]\d{1,2}[-/]\d{1,2})'
NumericDateLen(t, i) ==
    LET yk == DigitRun(t, i, 4)
        mk == DigitRun(t, i + yk + 1, 2)
        dk == DigitRun(t, i + yk + mk + 2, 2)
    IN IF /\ yk > 0 /\ CharAt(t, i + yk) \in {"-", "/"}
          /\ mk > 0 /\ CharAt(t, i + yk + mk + 1) \in {"-", "/"}
          /\ dk > 0
           THEN yk + mk + dk + 2
       ELSE 0

\* morning, afternoon, noon, evening
DayPartWords ==
    << <<"u4E0A", "u5348">>, <<"u4E0B", "u5348">>, <<"u4E2D", "u5348">>,
       <<"u665A", "u4E0A">> >>

\* [:<u70B9><uFF1A>]
ClockMarks == {":", DIAN, FW_COLON}

\* r'(\d{1,2}[:<u70B9><uFF1A>]\d{1,2}(?:[:<u70B9><uFF1A>]\d{1,2})?)'
ClockTimeLen(t, i) ==
    LET hk == DigitRun(t, i, 2)
        mk == DigitRun(t, i + hk + 1, 2)
        sk == DigitRun(t, i + hk + mk + 2, 2)
    IN IF hk > 0 /\ CharAt(t, i + hk) \in ClockMarks /\ mk > 0
           THEN IF CharAt(t, i + hk + mk + 1) \in ClockMarks /\ sk > 0
                    THEN hk + mk + sk + 2
                ELSE hk + mk + 1
       ELSE 0

\* r'(\d+<u5C0F><u65F6>|\d+<u5206><u949F>)'
DurationLen(t, i) ==
    LET k == DigitRun(t, i, Len(t))
    IN IF k > 0 /\ (\/ LiteralAt(t, i + k, <<"u5C0F", "u65F6">>)
                    \/ LiteralAt(t, i + k, <<"u5206", "u949F">>))
           THEN k + 2
       ELSE 0

\* the length of the match at i of datetime_patterns[n]
DatetimePatternLen(t, i, n) ==
    IF n = 1 THEN AlternationLen(t, i, DayWords)
    ELSE IF n = 2 THEN AlternationLen(t, i, PeriodWords)
    ELSE IF n = 3 THEN WeekdayLen(t, i)
    ELSE IF n = 4 THEN NumericDateLen(t, i)
    ELSE IF n = 5 THEN AlternationLen(t, i, DayPartWords)
    ELSE IF n = 6 THEN ClockTimeLen(t, i)
    ELSE DurationLen(t, i)

\* the length of the match at i of the n-th of the location_patterns of
\* extract_title
TitleLocationPatternLen(t, i, n) ==
    IF n = 1 THEN PrefixedClauseLen(t, i, <<"u5728">>)
    ELSE IF n = 2 THEN PrefixedClauseLen(t, i, <<"u4F4D", "u4E8E">>)
    ELSE IF n = 3 THEN PlaceLabelLen(t, i)
    ELSE MeetingRoomLen(t, i)

\* re.sub(datetime_patterns[n], '', title)
RemoveDatetime(t, n) ==
    RemoveSpans(t, [i \in 1..Len(t) |-> DatetimePatternLen(t, i, n)], 1)

\* "for pattern in datetime_patterns: title = re.sub(pattern, '', title)"
RemoveDatetimes(t) ==
    RemoveDatetime(RemoveDatetime(RemoveDatetime(RemoveDatetime(
        RemoveDatetime(RemoveDatetime(RemoveDatetime(t, 1), 2), 3), 4),
        5), 6), 7)

\* re.sub(location_patterns[n], '', title)
RemoveLocation(t, n) ==
    RemoveSpans(t, [i \in 1..Len(t) |-> TitleLocationPatternLen(t, i, n)], 1)

\* "for pattern in location_patterns: title = re.sub(pattern, '', title)"
RemoveLocations(t) ==
    RemoveLocation(RemoveLocation(RemoveLocation(RemoveLocation(t, 1), 2),
                                  3), 4)

\* re.sub(r'\s+', ' ', title)
SquashWhitespace(t) ==
    Rebuild([i \in 1..Len(t) |->
        IF t[i] \notin Whitespace THEN t[i]
        ELSE IF CharAt(t, i - 1) \in Whitespace THEN "" ELSE " "])

\* re.sub(r'^[...\s]+|[...\s]+$', '', title)
StripPunctuation(t) ==
    LET keep == {i \in 1..Len(t) : t[i] \notin ClauseEnds \cup Whitespace}
    IN IF keep = {} THEN <<>>
       ELSE SubSeq(t, MinOf(keep), CHOOSE i \in keep : \A j \in keep : j <= i)

\* "if not title: title = <u65E5><u7A0B>"
ScheduleIfEmpty(t) == IF t = <<>> THEN <<RI, "u7A0B">> ELSE t

\* extract_title
extract_title(t) ==
    ScheduleIfEmpty(StripPunctuation(strip(SquashWhitespace(
        RemoveLocations(RemoveDatetimes(t))))))

\* the first day of month m of year y, of the next year for m = 13
FirstOfMonth(y, m) == IF m = 13 THEN <<y + 1, 1, 1>> ELSE <<y, m, 1>>

\* the date with the day number n in a year from first on, at h:mi
DateOfDayNumber(n, first, h, mi) ==
    LET y == CHOOSE yy \in first..(first + (n - DayNumber(<<first, 1, 1>>)) \div 365) :
                 DayNumber(<<yy, 1, 1>>) <= n /\ n < DayNumber(<<yy + 1, 1, 1>>)
        m == CHOOSE mm \in 1..12 :
                 /\ DayNumber(FirstOfMonth(y, mm)) <= n
                 /\ n < DayNumber(FirstOfMonth(y, mm + 1))
    IN <<y, m, n - DayNumber(<<y, m, 1>>) + 1, h, mi>>

\* dt + timedelta(days=k) for k >= 0; NoneDT stands for OverflowError
PlusDays(dt, k) ==
    IF DayNumber(dt) + k >= DayNumber(<<10000, 1, 1>>) THEN NoneDT
    ELSE DateOfDayNumber(DayNumber(dt) + k, Year(dt), Hour(dt), Minute(dt))

\* the time of day of the given minute of a day of the date of dt
AtMinuteOfDay(dt, m) == <<Year(dt), Month(dt), Day(dt), m \div 60, m % 60>>

\* dt + timedelta(minutes=n) for n >= 0; NoneDT stands for OverflowError
PlusMinutes(dt, n) ==
    PlusDays(AtMinuteOfDay(dt, (Hour(dt) * 60 + Minute(dt) + n) % 1440),
             (Hour(dt) * 60 + Minute(dt) + n) \div 1440)

\* the dictionary parse_event starts from; confidence is counted in
\* hundredths
EmptyResult(t) ==
    [title |-> NoneStr, start_time |-> NoneDT, end_time |-> NoneDT,
     location |-> NoneStr, duration_minutes |-> 60, confidence |-> 0,
     raw_text |-> t]

MinOfTwo(a, b) == IF a <= b THEN a ELSE b

\* steps 4 and 5 of parse_event and "min(result['confidence'], 1.0)"
WithLocationAndTitle(result, location, title) ==
    [result EXCEPT
        !.location = IF Truthy(location) THEN location ELSE NoneStr,
        !.title = title,
        !.confidence =
            MinOfTwo(result.confidence
                         + (IF Truthy(location) THEN 15 ELSE 0) + 15, 100)]

\* steps 2 and 3 of parse_event: an OverflowError of the addition leaves
\* the result as it is after step 2
WithDurationAndEnd(t, result, duration_minutes, end_time) ==
    IF end_time = NoneDT
        THEN [result EXCEPT !.duration_minutes = duration_minutes,
                            !.confidence = result.confidence + 20]
    ELSE WithLocationAndTitle(
             [result EXCEPT !.duration_minutes = duration_minutes,
                            !.end_time = end_time,
                            !.confidence = result.confidence + 40],
             DateParserService_extract_location(t), extract_title(t))

\* step 1 of parse_event
WithStart(t, start_time) ==
    IF start_time = NoneDT THEN EmptyResult(t)
    ELSE WithDurationAndEnd(
             t,
             [EmptyResult(t) EXCEPT !.start_time = start_time,
                                    !.confidence = 30],
             extract_duration(t),
             PlusMinutes(start_time, extract_duration(t)))

\* parse_event, status and value being what dateparser.parse does
parse_event(t, status, value) ==
    IF ~Truthy(t) \/ strip(t) = <<>>
        THEN [pc |-> "raised", exc |-> "ValueError", ret |-> <<>>]
    ELSE [pc |-> "returned", exc |-> "",
          ret |-> WithStart(t, parse_datetime(status, value))]

\* the ideographic full stop, the fullwidth exclamation and question marks
\* and the newline: r'[...\n]'
SentenceEnds == {"u3002", "uFF01", "uFF1F", "\n"}

\* sentence.strip() of the n-th of re.split(split_pattern, text)
Sentence(t, n) ==
    LET starts == {1} \cup {i + 1 : i \in {j \in 1..Len(t) : t[j] \in SentenceEnds}}
        start == CHOOSE s \in starts : Cardinality({x \in starts : x < s}) = n - 1
    IN strip(SubSeq(t, start,
                    MinOf({j \in start..(Len(t) + 1) :
                              CharAt(t, j) \in SentenceEnds \/ j = Len(t) + 1}) - 1))

\* len(re.split(split_pattern, text))
SentenceCount(t) == 1 + Cardinality({j \in 1..Len(t) : t[j] \in SentenceEnds})

\* what the loop of parse_multiple_events appends for the n-th sentence,
\* outcome being what dateparser.parse does for it: <<event>> or <<>>
EventOfSentence(sentence, outcome) ==
    IF sentence = <<>> THEN <<>>
    ELSE IF parse_event(sentence, outcome[1], outcome[2]).ret.start_time # NoneDT
        THEN <<parse_event(sentence, outcome[1], outcome[2]).ret>>
    ELSE <<>>

\* parse_multiple_events, outcomes[n] being what dateparser.parse does for
\* the n-th sentence; re.split raises TypeError for None
parse_multiple_events(t, outcomes) ==
    IF t = NoneStr THEN [pc |-> "raised", exc |-> "TypeError", ret |-> <<>>]
    ELSE [pc |-> "returned", exc |-> "",
          ret |-> LET appended ==
                          SelectSeq([n \in 1..SentenceCount(t) |->
                                        EventOfSentence(Sentence(t, n), outcomes[n])],
                                    LAMBDA x : x # <<>>)
                  IN [n \in 1..Len(appended) |-> appended[n][1]]]

\* get_dateparser_service: the global after the call and what the call
\* returns
get_dateparser_service(service, tz) ==
    IF service = NoService
        THEN [global |-> <<DateParserService(tz)>>, ret |-> DateParserService(tz)]
    ELSE IF Truthy(tz) /\ tz # service[1].timezone
        THEN [global |-> service, ret |-> DateParserService(tz)]
    ELSE [global |-> service, ret |-> service[1]]

(***************************************************************************)
(* Inputs                                                                  *)
(***************************************************************************)
MaxPieces == 2
MaxRangePieces == 2
MaxPriorityPieces == 2
MaxLocationPieces == 3
MaxSegmentPieces == 3
MaxTrimPieces == 3
MaxDatePieces == 2
MaxThreads == 2
MaxCallsPerThread == 2

\* the pieces of a text of the calls made with and without a timezone
MaxTimezonePieces == 1

\* the events of a list given to generate_ics
MaxEvents == 2

\* the pieces of a text given to the DateParserService
MaxServicePieces == 2

RECURSIVE Concat(_)
Concat(ps) == IF ps = <<>> THEN <<>> ELSE Head(ps) \o Concat(Tail(ps))

\* the texts made of at most n of the pieces
TextsOver(pieces, n) ==
    {Concat(ps) : ps \in UNION {[1..k -> pieces] : k \in 0..n}}

Fill(n) == [i \in 1..n |-> "x"]

ParsePieces == {
    <<"\n">>, Chars("||"), Chars("Untitled Event"), Chars("2025/11/24"),
    Chars("-2025/11/25"), Chars("9999-12-31 23:30"), Chars("1. Standup"),
    Chars("\n2. Review"), Chars("\n\nLunch"), Chars(" Location: Room A,"),
    Chars(" urgent") }

\* texts of whitespace only
BlankTexts == { <<" ">>, Chars(" \t\n ") }

\* texts longer than the limits of the title, the location and the
\* description
LongTexts == {
    Fill(501), Chars("location: ") \o Fill(200),
    Fill(100) \o Chars(" 2025-11-24") }

ParseTexts ==
    {NoneStr} \cup TextsOver(ParsePieces, MaxPieces) \cup BlankTexts
        \cup LongTexts

RangePieces == {
    <<" ">>, <<"-">>, Chars("Review "), Chars("2025-11-24"),
    Chars("2025-11-25"), Chars("-2025-11-24"), Chars("~2025/11/25"),
    Chars(" to 2025-11-25"), Chars("2025-11-24 - 2025-11-25"),
    Chars("2025-13-01"), Chars("9999-12-31"), Chars(" 14:30"),
    Chars(" 23:00-01:00"), Chars(" 25:00"), Chars("Nov 5") }

\* a time range on the day of the date, with equal ends, backwards and
\* with one-digit fields; a date range followed by a time range, by a time
\* after a comma and by a time that starts 16 characters later
TimeRangeTexts == {
    Chars("2025-11-22 14:30-15:30"), Chars("2025-11-24 14:30-14:30"),
    Chars("2025-11-24 10:00 - 9:5"), Chars("2024-02-28 23:59~0:00"),
    Chars("2025-11-24-2025-11-25 14:30-15:30"),
    Chars("2025/11/24 - 2025/11/25, 14:30"),
    Chars("2025-11-24-2025-11-25 ") \o Fill(15) \o Chars("14:30") }

\* a date followed by a time range with an hour out of range
OutOfRangeTimeTexts == {
    Chars("2025-11-24, 25:00-26:00"), Chars("2025-11-24 at 10:00-24:00") }

RangeTexts ==
    {NoneStr} \cup TextsOver(RangePieces, MaxRangePieces)
        \cup TimeRangeTexts \cup OutOfRangeTimeTexts

\* the texts of the calls made with and without a timezone
TimezoneTexts ==
    {NoneStr} \cup TextsOver(RangePieces, MaxTimezonePieces)
        \cup TimeRangeTexts

\* titles without and with the characters that _escape_text escapes
IcsTitles == {
    Chars("Team sync"), Chars("Lunch, then review"), Chars("Plan; budget"),
    Chars("C:\\docs") }

\* the other fields of an event
IcsDetails == {
    [location |-> NoneStr, description |-> NoneStr, priority |-> "MEDIUM",
     reminder_minutes |-> NoReminder],
    [location |-> Chars("Room 5"), description |-> Chars("Bring notes"),
     priority |-> "HIGH", reminder_minutes |-> 15],
    [location |-> Chars("Hall A, B"), description |-> NoneStr,
     priority |-> "LOW", reminder_minutes |-> 0],
    [location |-> NoneStr, description |-> Chars("Agenda"),
     priority |-> "MEDIUM", reminder_minutes |-> 15] }

IcsEvents ==
    {[title |-> t, start_time |-> <<2025, 11, 24, 10, 0>>,
      end_time |-> <<2025, 11, 24, 11, 30>>, location |-> d.location,
      description |-> d.description, priority |-> d.priority,
      reminder_minutes |-> d.reminder_minutes] :
        t \in IcsTitles, d \in IcsDetails}

EventLists == UNION {[1..k -> IcsEvents] : k \in 0..MaxEvents}

\* values of uuid.uuid4().hex[:8]
UniqueIds == {Chars("1a2b3c4d"), Chars("00000000")}

PriorityPieces == {
    <<" ">>, Chars("urgent"), Chars("ASAP"), Chars("Important"),
    Chars("emergency"), <<JIN, JI>>, <<ZHONG, YAO>>, <<LI, JI2>>, <<JIN>>,
    Chars("optional"), Chars("Whenever"), Chars("when available"),
    Chars("FLEXIBLE"), <<KE, XUAN>>, <<SUI, YI4>>, <<LING, HUO>>,
    Chars("team sync"), Chars("when"), Chars("available") }

PriorityTexts == {NoneStr} \cup TextsOver(PriorityPieces, MaxPriorityPieces)

LocationPieces == {
    <<" ">>, <<"\n">>, <<";">>, <<CJK_STOP>>, <<FW_COMMA>>, <<FW_SEMICOLON>>,
    Chars("location: "), Chars("Location:"), <<DI, DIAN, FW_COLON>>,
    <<DI, ZHI3, ":">>, <<HUI, YI, DI, DIAN, FW_COLON>>, Chars("Room A"),
    Chars(". Bring laptop"), Chars(", floor 2") }

LocationTexts == TextsOver(LocationPieces, MaxLocationPieces)

SegmentPieces == {
    <<" ">>, <<"\n">>, Chars("\n\n"), Chars("1."), Chars("\n2."),
    Chars("\n 10. "), Chars("Standup"), Chars("Review 2.5"),
    Chars("Review\n\nnotes") }

SegmentTexts == {NoneStr} \cup TextsOver(SegmentPieces, MaxSegmentPieces)

TrimPieces == {
    <<" ">>, <<"\n">>, <<"\t">>, <<"|">>, <<BROKEN_BAR>>, <<FW_COLON>>,
    Chars("!?"), Chars(" \n "), Chars(" | "), Chars("hello"),
    Chars("world"), Chars("john|date") }

TrimTexts == TextsOver(TrimPieces, MaxTrimPieces)

DatePieces == {
    <<" ">>, Chars("2025-11-24"), Chars("2024-02-29"), Chars("2025-13-01"),
    Chars("2025-02-30"), Chars("0000-01-01"), Chars("-2025"),
    Chars("30/02/2025"), Chars("13/01/2025"), Chars("01/13/2025"),
    Chars(" 14:30"), Chars(" 25:00"), Chars(" 10:61"), Chars("Nov 31"),
    Chars("29 Feb"), <<"2", YUE, "3", "0", RI>>, Chars("Review") }

\* texts "D MonthName YYYY" with the day, month and year they state
DayMonthYearCases == {
    [text |-> Chars("22 November 2025"), day |-> 22, month |-> 11,
     year |-> 2025],
    [text |-> Chars("5 May 2025"), day |-> 5, month |-> 5, year |-> 2025],
    [text |-> Chars("1 Mar 2024"), day |-> 1, month |-> 3, year |-> 2024],
    [text |-> Chars("31 january 1999"), day |-> 31, month |-> 1,
     year |-> 1999],
    [text |-> Chars("22 November 4000"), day |-> 22, month |-> 11,
     year |-> 4000] }

DayMonthYearTexts == {c.text : c \in DayMonthYearCases}

\* texts with two dates, of one format and of two
SeveralDatesTexts == {
    Chars("Meeting on 2025-11-22 and 2025-11-23"),
    Chars("Conference from 2025-11-22 to 2025-11-24"),
    Chars("22/11/2025 and 23/11/2025"),
    Chars("22/11/2025 and 2025-11-23"),
    Chars("Nov 5 2025, moved from 2025-11-03") }

\* texts with the ISO date 2025-11-22 followed by a time of day
TimedDateCases == {
    [text |-> Chars("2025-11-22 14:30"), hour |-> 14, minute |-> 30],
    [text |-> Chars("2025-11-22T14:30"), hour |-> 14, minute |-> 30],
    [text |-> Chars("2025-11-22 9:05"), hour |-> 9, minute |-> 5],
    [text |-> Chars("2025-11-22 at 14:30"), hour |-> 14, minute |-> 30],
    [text |-> Chars("Please schedule meeting for 2025-11-22 at 14:30"),
     hour |-> 14, minute |-> 30] }

TimedDateTexts == {c.text : c \in TimedDateCases}

\* the numbers A and B of the tokens A-B-2025 and A/B/2025
AmbiguousNumbers == {0, 1, 2, 12, 13, 29, 30, 31, 32}

NumericDateCases ==
    {[text |-> Digits2(a) \o <<sep>> \o Digits2(b) \o <<sep>> \o Chars("2025"),
      a |-> a, b |-> b] :
        a \in AmbiguousNumbers, b \in AmbiguousNumbers, sep \in {"-", "/"}}

NumericDateTexts == {c.text : c \in NumericDateCases}

DateTexts ==
    {NoneStr} \cup TextsOver(DatePieces, MaxDatePieces)
        \cup DayMonthYearTexts \cup SeveralDatesTexts \cup TimedDateTexts
        \cup NumericDateTexts

Timezones == {NoneStr, Chars("Asia/Shanghai")}

\* values of datetime.now()
Clock == {<<2026, 11, 3, 10, 0>>, <<2026, 12, 31, 23, 30>>}

\* what the dateparser library may do: <<status, value>>
DateparserOutcomes == {
    <<"unavailable", NoneDT>>, <<"raises", NoneDT>>, <<"returns", NoneDT>>,
    <<"returns", <<2025, 11, 24, 10, 0>>>> }

\* pieces of the texts given to the DateParserService: a meeting tomorrow
\* at 2 in the afternoon, a sentence about the day after tomorrow,
\* durations, a room, the word "at" alone, a date at the end of the
\* calendar, ends of clauses and sentences
ServicePieces == {
    <<"u660E", "u5929", "u4E0B", "u5348", "2", DIAN, "u5F00", HUI>>,
    <<"u540E", "u5929", "u8BA8", "u8BBA", "u3002">>,
    <<"2", "u5C0F", "u65F6">>,
    <<"1", " ", "u4E2A", "u5C0F", "u65F6">>,
    <<"4", "5", "u5206", "u949F">>,
    <<"u5728", HUI, YI, "u5BA4", "A">>,
    <<"u5728">>,
    Chars("9999-12-31 23:30"),
    <<"uFF0C">>, <<"u3002">>, <<" ">> }

ServiceTexts == {NoneStr} \cup TextsOver(ServicePieces, MaxServicePieces)

\* the timezones asked of get_dateparser_service
RequestedTimezones ==
    {NoneStr, Chars("UTC"), Chars("Asia/Shanghai"), Chars("Asia/Tokyo")}

\* what dateparser.parse may do for the DateParserService, which imports
\* the library unconditionally: <<status, value>>
ServiceOutcomes == {
    <<"raises", NoneDT>>, <<"returns", NoneDT>>,
    <<"returns", <<2026, 11, 4, 14, 0>>>>,
    <<"returns", <<9999, 12, 31, 23, 30>>>> }

(***************************************************************************)
(* The calls                                                               *)
(***************************************************************************)
\* the threads that call get_parser_service
Threads == 1..MaxThreads

\* "_parser_service_instance: Optional[ParserService] = None"; instances
\* are numbered from 1 in the order of their construction
NoInstance == 0

\* parser_service.py has been imported and get_parser_service has not
\* been called: at is where a thread stands in get_parser_service, made the
\* calls it has started, new the instance it has constructed and not stored
\* yet, result what its last call returned
ModuleLoaded ==
    /\ _parser_service_instance = NoInstance
    /\ _dateparser_service = NoService
    /\ constructed = 0
    /\ calls = [c \in Threads |->
                   [at |-> "idle", made |-> 0, new |-> NoInstance,
                    result |-> NoInstance]]

InitOver(texts) ==
    /\ text \in texts
    /\ timezone \in Timezones
    /\ now \in Clock
    /\ \E d \in DateparserOutcomes : dpStatus = d[1] /\ dpValue = d[2]
    /\ pc = "call"
    /\ op = ""
    /\ ret = <<>>
    /\ exc = ""
    /\ ics_events = <<>>
    /\ ModuleLoaded

\* the call ends with the outcome r
Outcome(name, r) ==
    /\ pc = "call"
    /\ op' = name
    /\ pc' = r.pc
    /\ exc' = r.exc
    /\ ret' = r.ret
    /\ UNCHANGED <<text, timezone, now, dpStatus, dpValue>>
    /\ UNCHANGED <<ics_events, _dateparser_service>>

Finish(name, r) ==
    /\ Outcome(name, r)
    /\ UNCHANGED <<_parser_service_instance, calls, constructed>>

\* get_parser_service() run without interruption, as on the event loop
GetDefaultInstance ==
    /\ _parser_service_instance' =
           IF _parser_service_instance = NoInstance THEN constructed + 1
           ELSE _parser_service_instance
    /\ constructed' =
           IF _parser_service_instance = NoInstance THEN constructed + 1
           ELSE constructed
    /\ UNCHANGED calls

Returns(value) == [pc |-> "returned", exc |-> "", ret |-> value]

\* a call of a function of the text alone
InitText(texts) ==
    /\ text \in texts
    /\ timezone = NoneStr
    /\ now \in Clock
    /\ dpStatus = "unavailable"
    /\ dpValue = NoneDT
    /\ pc = "call"
    /\ op = ""
    /\ ret = <<>>
    /\ exc = ""
    /\ ics_events = <<>>
    /\ ModuleLoaded

\* ParserService.parse(text, timezone)
Parse == Finish("parse", parse(text, timezone, now, dpStatus, dpValue))

\* POST /api/upload/text; the query parameter text is required, and the
\* handler asks for the default parser once the text is validated
UploadText ==
    /\ text # NoneStr
    /\ Outcome("upload_text",
               upload_text(text, timezone, now, dpStatus, dpValue))
    /\ IF IsEmptyText(text)
       THEN UNCHANGED <<_parser_service_instance, calls, constructed>>
       ELSE GetDefaultInstance

\* DateTimeParser.extract_datetime_range(text, timezone)
ExtractDatetimeRange ==
    Finish("extract_datetime_range",
           Returns(extract_datetime_range(text, timezone, now, dpStatus, dpValue)))

\* PriorityParser.extract_priority(text)
ExtractPriority == Finish("extract_priority", Returns(extract_priority(text)))

\* ParserService._extract_priority(text)
ServiceExtractPriority ==
    Finish("_extract_priority", Returns(_extract_priority(text)))

\* LocationParser.extract_location(text)
ExtractLocation == Finish("extract_location", Returns(extract_location(text)))

\* ParserService._extract_location(text)
ServiceExtractLocation ==
    Finish("_extract_location", Returns(_extract_location(text)))

\* EventParser.extract_event_number(text)
ExtractEventNumber ==
    Finish("extract_event_number", Returns(extract_event_number(text)))

\* re_parser.trim_text(text)
TrimText == Finish("trim_text", Returns(trim_text(text)))

\* re_parser.trim_text of what trim_text returned
TrimTextAgain ==
    /\ pc = "returned"
    /\ op = "trim_text"
    /\ op' = "trim_text(trim_text)"
    /\ ret' = trim_text(ret)
    /\ UNCHANGED <<text, timezone, now, dpStatus, dpValue, pc, exc>>
    /\ UNCHANGED <<_parser_service_instance, calls, constructed>>
    /\ UNCHANGED <<ics_events, _dateparser_service>>

\* ICSService.generate_ics(events)
GenerateIcs ==
    \E unique_ids \in [1..Len(ics_events) -> UniqueIds] :
        Finish("generate_ics", generate_ics(ics_events, unique_ids, now))

\* ICSService.parse_ics of what generate_ics returned
ParseIcs ==
    /\ pc = "returned"
    /\ op = "generate_ics"
    /\ op' = "parse_ics(generate_ics)"
    /\ pc' = parse_ics(ret, now).pc
    /\ exc' = parse_ics(ret, now).exc
    /\ ret' = parse_ics(ret, now).ret
    /\ UNCHANGED <<text, timezone, now, dpStatus, dpValue>>
    /\ UNCHANGED <<_parser_service_instance, calls, constructed>>
    /\ UNCHANGED <<ics_events, _dateparser_service>>

\* get_dateparser_service(timezone), the first call or a later one
GetDateparserService ==
    /\ pc \in {"call", "service"}
    /\ \E tz \in RequestedTimezones :
           /\ timezone' = tz
           /\ _dateparser_service' =
                  get_dateparser_service(_dateparser_service, tz).global
           /\ ret' = get_dateparser_service(_dateparser_service, tz).ret
    /\ pc' = "service"
    /\ op' = "get_dateparser_service"
    /\ exc' = ""
    /\ UNCHANGED <<text, now, dpStatus, dpValue, ics_events>>
    /\ UNCHANGED <<_parser_service_instance, calls, constructed>>

\* a method of the service that get_dateparser_service returned ends with
\* the outcome r
ServiceOutcome(name, r) ==
    /\ pc = "service"
    /\ op' = name
    /\ pc' = r.pc
    /\ exc' = r.exc
    /\ ret' = r.ret
    /\ UNCHANGED <<text, timezone, now, dpStatus, dpValue>>
    /\ UNCHANGED <<_parser_service_instance, calls, constructed>>
    /\ UNCHANGED <<ics_events, _dateparser_service>>

\* service.parse_event(text)
ParseEvent == ServiceOutcome("parse_event", parse_event(text, dpStatus, dpValue))

\* service.parse_multiple_events(text), dateparser.parse doing for each
\* sentence one of the things it may do
ParseMultipleEvents ==
    \E outcomes \in [1..SentenceCount(text) -> ServiceOutcomes] :
        ServiceOutcome("parse_multiple_events",
                       parse_multiple_events(text, outcomes))

\* parse_simple_date(text), today's date taken from the clock
ParseSimpleDate ==
    Finish("parse_simple_date", Returns(parse_simple_date(text, now)))

\* a step of thread c inside get_parser_service
Step(c, next) ==
    /\ calls' = [calls EXCEPT ![c] = next]
    /\ UNCHANGED <<text, timezone, now, dpStatus, dpValue, pc, op, ret, exc>>
    /\ UNCHANGED <<ics_events, _dateparser_service>>

\* the condition of line 270 always taken as true
TestAlwaysNone(c) ==
    /\ calls[c].at = "test"
    /\ Step(c, [calls[c] EXCEPT !.at = "construct"])
    /\ UNCHANGED <<_parser_service_instance, constructed>>

\* thread c calls get_parser_service()
GetParserService(c) ==
    /\ calls[c].at = "idle"
    /\ calls[c].made < MaxCallsPerThread
    /\ Step(c, [calls[c] EXCEPT !.at = "test", !.made = @ + 1])
    /\ UNCHANGED <<_parser_service_instance, constructed>>

\* "if _parser_service_instance is None:"
TestInstance(c) ==
    /\ calls[c].at = "test"
    /\ Step(c, [calls[c] EXCEPT !.at =
                   IF _parser_service_instance = NoInstance
                   THEN "construct" ELSE "return"])
    /\ UNCHANGED <<_parser_service_instance, constructed>>

\* "ParserService()"
Construct(c) ==
    /\ calls[c].at = "construct"
    /\ constructed' = constructed + 1
    /\ Step(c, [calls[c] EXCEPT !.at = "assign", !.new = constructed + 1])
    /\ UNCHANGED _parser_service_instance

\* "_parser_service_instance = " what was constructed
Assign(c) ==
    /\ calls[c].at = "assign"
    /\ _parser_service_instance' = calls[c].new
    /\ Step(c, [calls[c] EXCEPT !.at = "return", !.new = NoInstance])
    /\ UNCHANGED constructed

\* "return _parser_service_instance"
ReturnInstance(c) ==
    /\ calls[c].at = "return"
    /\ Step(c, [calls[c] EXCEPT !.at = "idle",
                                !.result = _parser_service_instance])
    /\ UNCHANGED <<_parser_service_instance, constructed>>

Init == InitOver(ParseTexts)
Next == Parse \/ UploadText
Spec == Init /\ [][Next]_vars

InitRange == InitOver(RangeTexts)
NextRange == ExtractDatetimeRange
SpecRange == InitRange /\ [][NextRange]_vars

InitTimezone == InitOver(TimezoneTexts)
NextTimezone == Parse \/ ExtractDatetimeRange \/ UploadText
SpecTimezone == InitTimezone /\ [][NextTimezone]_vars

InitIcs ==
    /\ ics_events \in EventLists
    /\ text = NoneStr
    /\ timezone = NoneStr
    /\ now \in Clock
    /\ dpStatus = "unavailable"
    /\ dpValue = NoneDT
    /\ pc = "call"
    /\ op = ""
    /\ ret = <<>>
    /\ exc = ""
    /\ ModuleLoaded
NextIcs == GenerateIcs \/ ParseIcs
SpecIcs == InitIcs /\ [][NextIcs]_vars

\* dateparser_parser.py has been imported and a text is to be parsed
InitDateParserService ==
    /\ text \in ServiceTexts
    /\ timezone = NoneStr
    /\ now \in Clock
    /\ \E d \in ServiceOutcomes : dpStatus = d[1] /\ dpValue = d[2]
    /\ pc = "call"
    /\ op = ""
    /\ ret = <<>>
    /\ exc = ""
    /\ ics_events = <<>>
    /\ ModuleLoaded
NextDateParserService ==
    GetDateparserService \/ ParseEvent \/ ParseMultipleEvents
SpecDateParserService ==
    InitDateParserService /\ [][NextDateParserService]_vars

InitPriority == InitOver(PriorityTexts)
NextPriority == ExtractPriority \/ ServiceExtractPriority
SpecPriority == InitPriority /\ [][NextPriority]_vars

InitLocation == InitText(LocationTexts)
NextLocation == ExtractLocation \/ ServiceExtractLocation
SpecLocation == InitLocation /\ [][NextLocation]_vars

InitSegment == InitText(SegmentTexts)
NextSegment == ExtractEventNumber
SpecSegment == InitSegment /\ [][NextSegment]_vars

InitTrim == InitText(TrimTexts)
NextTrim == TrimText \/ TrimTextAgain
SpecTrim == InitTrim /\ [][NextTrim]_vars

InitSimpleDate == InitText(DateTexts)
NextSimpleDate == ParseSimpleDate
SpecSimpleDate == InitSimpleDate /\ [][NextSimpleDate]_vars

\* threads that call get_parser_service, each several times
InitSingleton == InitText({NoneStr}) /\ now = <<2026, 11, 3, 10, 0>>
NextSingleton ==
    \E c \in Threads :
        \/ GetParserService(c)
        \/ TestInstance(c)
        \/ Construct(c)
        \/ Assign(c)
        \/ ReturnInstance(c)
SpecSingleton == InitSingleton /\ [][NextSingleton]_vars

(***************************************************************************)
(* Properties                                                              *)
(***************************************************************************)
\* text is None, the empty string or whitespace only
IsBlank(t) == t = NoneStr \/ \A i \in 1..Len(t) : t[i] \in Whitespace

\* the number of the hour of dt
HourNumber(dt) == DayNumber(dt) * 24 + Hour(dt)

\* b >= a
AtOrAfter(b, a) ==
    \/ HourNumber(b) > HourNumber(a)
    \/ HourNumber(b) = HourNumber(a) /\ Minute(b) >= Minute(a)

\* b = a + 1 hour
OneHourAfter(b, a) ==
    HourNumber(b) = HourNumber(a) + 1 /\ Minute(b) = Minute(a)

\* neither dateparser nor the regex cascade finds a date in the cleaned text
NoDateFound(t, clock, status, value) ==
    /\ status # "returns" \/ value = NoneDT
    /\ parse_simple_date(trim_text(t), clock) = NoneDT

\* C1: ParserService.parse raises ValueError and returns no event whenever
\* text is None, the empty string or whitespace only
C1_BlankTextRaisesValueError ==
    (op = "parse" /\ IsBlank(text))
        => (pc = "raised" /\ exc = "ValueError" /\ ret = <<>>)

\* a text of whitespace characters has been rejected
C1_Witness ==
    /\ op = "parse" /\ text # NoneStr /\ Len(text) > 0 /\ IsBlank(text)
    /\ pc = "raised" /\ exc = "ValueError"

\* C2: every event that ParserService.parse returns has a start_time and an
\* end_time, and its end_time is not before its start_time
C2_EndNotBeforeStart ==
    (op = "parse" /\ pc = "returned")
        => \A n \in 1..Len(ret) :
               /\ ret[n].start_time # NoneDT
               /\ ret[n].end_time # NoneDT
               /\ AtOrAfter(ret[n].end_time, ret[n].start_time)

\* an event that starts in the last hour of a day has been returned: its
\* end is on the next day
C2_Witness ==
    /\ op = "parse" /\ pc = "returned" /\ Len(ret) = 1
    /\ Hour(ret[1].start_time) = 23
    /\ Day(ret[1].end_time) # Day(ret[1].start_time)

\* C3: when extract_datetime_range returns both a start and an end, the
\* end is not before the start, in the date-range branch too
C3_RangeEndNotBeforeStart ==
    (op = "extract_datetime_range" /\ ret[1] # NoneDT /\ ret[2] # NoneDT)
        => AtOrAfter(ret[2], ret[1])

\* a range whose second date is before its first has given an end before
\* the start
C3_Witness ==
    /\ op = "extract_datetime_range"
    /\ text = Chars("2025-11-25-2025-11-24")
    /\ ret = << <<2025, 11, 25, 0, 0>>, <<2025, 11, 24, 23, 59>> >>

\* the event starts on the date first and ends on the date second
OnDatesOfRange(event, first, second) ==
    (first # NoneDT /\ second # NoneDT)
        => /\ DateOf(event.start_time) = DateOf(first)
           /\ DateOf(event.end_time) = DateOf(second)

\* the event starts and ends on the dates of the range m
RangeDatesKept(m, event, today) ==
    m.ok => OnDatesOfRange(event, parse_simple_date(m.first, today),
                           parse_simple_date(m.second, today))

\* C4: for a text with an explicit date range D1-D2, the event that
\* ParserService.parse returns starts on D1 and ends on D2
C4_EventSpansDateRange ==
    (op = "parse" /\ pc = "returned")
        => RangeDatesKept(DateRangeSearch(trim_text(text)), ret[1], now)

\* the range 2025/11/24-2025/11/25 has given an event of one hour on the
\* first date
C4_Witness ==
    /\ op = "parse" /\ pc = "returned"
    /\ text = Chars("2025/11/24-2025/11/25") /\ dpStatus = "unavailable"
    /\ ret[1].start_time = <<2025, 11, 24, 0, 0>>
    /\ ret[1].end_time = <<2025, 11, 24, 1, 0>>

\* C5: ParserService.parse returns one event for each fragment of the text,
\* a text of N numbered items or N paragraphs giving N events
C5_OneEventPerFragment ==
    (op = "parse" /\ pc = "returned")
        => Len(ret) = Len(extract_event_number(text))

\* a text of two numbered items has given one event
C5_Witness ==
    /\ op = "parse" /\ pc = "returned"
    /\ text = Chars("1. Standup\n2. Review")
    /\ Len(extract_event_number(text)) = 2
    /\ Len(ret) = 1

\* C6: for a text that is not blank ParserService.parse returns a list and
\* never raises
C6_NeverRaisesOnAcceptedText ==
    (op = "parse" /\ ~IsBlank(text)) => pc = "returned"

\* the addition of one hour to the last hour of year 9999 has been raised
\* to the caller
C6_Witness ==
    /\ op = "parse" /\ text = Chars("9999-12-31 23:30")
    /\ pc = "raised" /\ exc = "OverflowError"

\* C7: when no date is found in a text that is not blank,
\* ParserService.parse returns an event that starts at the current time and
\* ends exactly one hour later
C7_NoDateStartsNow ==
    (op = "parse" /\ ~IsBlank(text)
        /\ NoDateFound(text, now, dpStatus, dpValue))
        => /\ pc = "returned"
           /\ Len(ret) = 1
           /\ ret[1].start_time = now
           /\ OneHourAfter(ret[1].end_time, ret[1].start_time)

\* a text without a date has given an event at the current time
C7_Witness ==
    /\ op = "parse" /\ pc = "returned" /\ ~IsBlank(text)
    /\ NoDateFound(text, now, dpStatus, dpValue)
    /\ ret[1].start_time = now

\* C8: when no date is found in a text that is not blank,
\* ParserService.parse returns the empty list
C8_NoDateReturnsEmpty ==
    (op = "parse" /\ ~IsBlank(text)
        /\ NoDateFound(text, now, dpStatus, dpValue))
        => (pc = "returned" /\ ret = <<>>)

\* C8, amended: when no date is found in a text that is not blank, the
\* caller of the API observes a response of success with the one event that
\* starts at the current time; and no response of upload_text is the
\* response "No events could be extracted" (success false, count 0)
C8_NoDateStillOneEvent ==
    /\ (op = "upload_text" /\ pc = "returned")
           => (ret.success /\ ret.count >= 1)
    /\ (op = "upload_text" /\ ~IsBlank(text)
           /\ NoDateFound(text, now, dpStatus, dpValue))
           => /\ pc = "returned"
              /\ ret.status_code = 200
              /\ ret.success
              /\ ret.count = 1
              /\ Len(ret.events) = 1
              /\ ret.events[1].start_time = isoformat(now)

\* the API has answered a text without a date
C8_Witness ==
    /\ op = "upload_text" /\ pc = "returned" /\ ~IsBlank(text)
    /\ NoDateFound(text, now, dpStatus, dpValue)
    /\ ret.count = 1

\* the keywords of C9
HighWords == {Chars("urgent"), Chars("asap"), Chars("important"),
              Chars("emergency"), <<JIN, JI>>, <<ZHONG, YAO>>, <<LI, JI2>>,
              <<JIN>>}

LowWords == {Chars("optional"), Chars("whenever"), Chars("when available"),
             Chars("flexible"), <<KE, XUAN>>, <<SUI, YI4>>, <<LING, HUO>>}

\* some word of words is in the lower-cased text
HasWord(words, t) == t # NoneStr /\ \E w \in words : Contains(lower(t), w)

\* the priority C9 states
PriorityStated(t) ==
    IF HasWord(HighWords, t) THEN "HIGH"
    ELSE IF HasWord(LowWords, t) THEN "LOW"
    ELSE "MEDIUM"

\* C9: priority extraction returns HIGH if the lower-cased text contains a
\* high keyword, otherwise LOW if it contains a low keyword, otherwise
\* MEDIUM; with a keyword of each kind the result is HIGH, whatever their
\* order
C9_HighThenLowThenMedium ==
    (op \in {"extract_priority", "_extract_priority"})
        => (pc = "returned" /\ ret = PriorityStated(text))

\* a text with a low keyword before a high keyword has given HIGH
C9_Witness ==
    /\ op = "_extract_priority" /\ ret = "HIGH"
    /\ text = Chars("optional") \o Chars("urgent")

\* title, description and location of an event are well-formed, cleaned
\* the cleaned text
FieldsWellFormed(event, cleaned) ==
    /\ event.title # NoneStr /\ Len(event.title) > 0
    /\ \/ event.description = NoneStr
       \/ /\ Len(event.description) <= 500
          /\ Len(event.description) <= Len(cleaned)
          /\ event.description = SubSeq(cleaned, 1, Len(event.description))
    /\ \/ event.location = NoneStr
       \/ Len(event.location) > 0 /\ Len(event.location) < 200

\* the title is 'Untitled Event' exactly when extraction yields nothing
PlaceholderExactly(event, extracted) ==
    (event.title = UntitledEvent) <=> (extracted = NoneStr)

\* the title is 'Untitled Event' when extraction yields nothing, and the
\* extracted title otherwise
PlaceholderOrExtracted(event, extracted) ==
    IF extracted = NoneStr THEN event.title = UntitledEvent
    ELSE event.title = extracted

\* C10: every event that ParserService.parse returns has a non-empty title,
\* equal to 'Untitled Event' exactly when title extraction yields nothing,
\* a description that is None or a prefix of the cleaned text of at most 500
\* characters, and a location that is None or a non-empty string of fewer
\* than 200 characters
C10_WellFormedExactPlaceholder ==
    (op = "parse" /\ pc = "returned")
        => \A n \in 1..Len(ret) :
               /\ FieldsWellFormed(ret[n], trim_text(text))
               /\ PlaceholderExactly(ret[n], _extract_title(trim_text(text)))

\* C10, amended: every event that ParserService.parse returns has a
\* non-empty title, equal to 'Untitled Event' whenever title extraction
\* yields nothing and to the extracted title otherwise (which may itself be
\* the text 'Untitled Event'), a description that is None or a prefix of
\* the cleaned text of at most 500 characters, and a location that is None
\* or a non-empty string of fewer than 200 characters
C10_WellFormed ==
    (op = "parse" /\ pc = "returned")
        => \A n \in 1..Len(ret) :
               /\ FieldsWellFormed(ret[n], trim_text(text))
               /\ PlaceholderOrExtracted(ret[n],
                                         _extract_title(trim_text(text)))

\* a text of more than 500 characters has given a description of 500
C10_Witness ==
    /\ op = "parse" /\ pc = "returned" /\ Len(text) > 500
    /\ Len(ret[1].description) = 500
    /\ ret[1].title = UntitledEvent

\* the delimiters named for a location: newline, comma, semicolon and
\* period, ASCII or full-width
LocationDelimiters ==
    {"\n", ",", ";", ".", FW_COMMA, FW_SEMICOLON, CJK_STOP}

HasDelimiter(location) ==
    \E i \in 1..Len(location) : location[i] \in LocationDelimiters

\* C11: a location extracted after a label never contains a newline, a
\* comma, a semicolon or a period, ASCII or full-width
C11_LocationEndsAtDelimiter ==
    (pc = "returned" /\ op \in {"extract_location", "_extract_location"}
        /\ ret # NoneStr)
    => ~HasDelimiter(ret)

\* the label is followed by a sentence ending in an ASCII period, and the
\* period and the next sentence are part of the returned location
C11_Witness ==
    /\ pc = "returned"
    /\ op = "extract_location"
    /\ text = Chars("location: Room A. Bring laptop")
    /\ ret = Chars("Room A. Bring laptop")

Segmented == pc = "returned" /\ op = "extract_event_number"

Trimmed(fragment) ==
    /\ fragment # <<>>
    /\ fragment[1] \notin Whitespace
    /\ fragment[Len(fragment)] \notin Whitespace

\* C12: extract_event_number returns an empty list for None, empty or
\* whitespace-only text and at least one fragment for every other text;
\* every fragment is non-empty and has no leading or trailing whitespace
C12_FragmentsTrimmedAndNonEmpty ==
    Segmented =>
        IF IsBlank(text) THEN ret = <<>>
        ELSE /\ Len(ret) >= 1
             /\ \A n \in 1..Len(ret) : Trimmed(ret[n])

\* two fragments, the second written after a number and a space
C12_Witness ==
    /\ Segmented
    /\ text = Chars("Standup\n 10. Review 2.5")
    /\ ret = <<Chars("Standup"), Chars("Review 2.5")>>

\* t[i..j] is a newline, optional whitespace, digits and "."
NumberedSeparator(t, i, j) ==
    /\ t[i] = "\n"
    /\ t[j] = "."
    /\ \E d \in (i + 1)..(j - 1) :
           /\ \A k \in (i + 1)..(d - 1) : t[k] \in Whitespace
           /\ \A k \in d..(j - 1) : t[k] \in Digit

\* t[i..j] is two or more newlines
BlankLines(t, i, j) == j > i /\ \A k \in i..j : t[k] = "\n"

NumberedSeparators(t) ==
    {m \in (1..Len(t)) \X (1..Len(t)) : NumberedSeparator(t, m[1], m[2])}

BlankLineBreaks(t) ==
    {m \in (1..Len(t)) \X (1..Len(t)) : BlankLines(t, m[1], m[2])}

\* the positions of t inside one of the separators
Covered(separators) == UNION {m[1]..m[2] : m \in separators}

\* the stretches of t between separators that are not blank
PiecesBetween(t, covered) ==
    {r \in (1..Len(t)) \X (1..Len(t)) :
        /\ r[1] <= r[2]
        /\ \A k \in r[1]..r[2] : k \notin covered
        /\ r[1] = 1 \/ (r[1] - 1) \in covered
        /\ r[2] = Len(t) \/ (r[2] + 1) \in covered
        /\ \E k \in r[1]..r[2] : t[k] \notin Whitespace}

\* fragments are the trimmed pieces, in the order of the text
InTextOrder(fragments, t, pieces) ==
    /\ Len(fragments) = Cardinality(pieces)
    /\ \A r \in pieces :
           fragments[1 + Cardinality({q \in pieces : q[1] < r[1]})]
               = strip(SubSeq(t, r[1], r[2]))

IsSplitOn(fragments, t, separators) ==
    InTextOrder(fragments, t, PiecesBetween(t, Covered(separators)))

\* as IsSplitOn, and the trimmed text alone when no piece is left
IsSplitOnOrWhole(fragments, t, pieces) ==
    IF pieces = {} THEN fragments = <<strip(t)>>
    ELSE InTextOrder(fragments, t, pieces)

\* C13 as stated: only the first matching rule is applied: the numbered
\* separators when the text has one, else the blank-line breaks when it has
\* one, else one fragment equal to the trimmed text; the fragments are the
\* pieces that are not empty, in the order of the text
C13_FirstMatchingRuleOnly ==
    (Segmented /\ ~IsBlank(text)) =>
        IF NumberedSeparators(text) # {}
            THEN IsSplitOn(ret, text, NumberedSeparators(text))
        ELSE IF BlankLineBreaks(text) # {}
            THEN IsSplitOn(ret, text, BlankLineBreaks(text))
        ELSE ret = <<strip(text)>>

\* C13 amended: as above, but when the text has a numbered separator and
\* every piece between the separators is empty, the result is one fragment
\* equal to the trimmed text, separators included
C13_FirstMatchingRuleOrWhole ==
    (Segmented /\ ~IsBlank(text)) =>
        IF NumberedSeparators(text) # {}
            THEN IsSplitOnOrWhole(ret, text,
                     PiecesBetween(text, Covered(NumberedSeparators(text))))
        ELSE IF BlankLineBreaks(text) # {}
            THEN IsSplitOn(ret, text, BlankLineBreaks(text))
        ELSE ret = <<strip(text)>>

\* a numbered item followed by a blank line: the blank line is not a split
\* point
C13_Witness ==
    /\ Segmented
    /\ text = Chars("Standup\n2.Review\n\nnotes")
    /\ ret = <<Chars("Standup"), Chars("Review\n\nnotes")>>

\* C14: trim_text is idempotent: trim_text(trim_text(s)) = trim_text(s)
C14_TrimTextIdempotent ==
    (pc = "returned" /\ op = "trim_text(trim_text)") => ret = trim_text(text)

\* a newline between two spaces: the first call leaves three spaces, the
\* second call one
C14_Witness ==
    /\ pc = "returned"
    /\ op = "trim_text(trim_text)"
    /\ text = Chars("hello \n world")
    /\ ret = Chars("hello world")

\* C15: the output of trim_text never contains two consecutive spaces
C15_NoConsecutiveSpaces ==
    (pc = "returned" /\ op = "trim_text") =>
        \A i \in 1..(Len(ret) - 1) : ~(ret[i] = " " /\ ret[i + 1] = " ")

\* the space that replaces the bar and the space after it follows the
\* space before the bar
C15_Witness ==
    /\ pc = "returned"
    /\ op = "trim_text"
    /\ text = Chars("hello | world")
    /\ ret = Chars("hello  world")

\* C16: the output of trim_text contains no "|", whether the bar was
\* surrounded by spaces or directly between word characters
C16_NoVerticalBar ==
    (pc = "returned" /\ op = "trim_text") =>
        \A i \in 1..Len(ret) : ret[i] # "|"

\* the bar between two words is kept
C16_Witness ==
    /\ pc = "returned"
    /\ op = "trim_text"
    /\ text = Chars("hello john|date")
    /\ ret = Chars("hello john|date")

\* dt is a date of the calendar with a time of the day
ExistingDateTime(dt) ==
    /\ Year(dt) \in 1..9999
    /\ Month(dt) \in 1..12
    /\ Day(dt) >= 1
    /\ IF Month(dt) = 12 THEN Day(dt) <= 31
       ELSE DayNumber(dt) < DayNumber(<<Year(dt), Month(dt) + 1, 1, 0, 0>>)
    /\ Hour(dt) \in 0..23
    /\ Minute(dt) \in 0..59

\* the year, month, day, hour and minute a match stands for
Components(m, current_year) ==
    <<IF m.year = -1 THEN current_year ELSE m.year, m.month, m.day,
      IF m.hour = -1 THEN 0 ELSE m.hour,
      IF m.minute = -1 THEN 0 ELSE m.minute>>

\* result is the first of the candidates that exists, None when none does
FirstExisting(result, candidates) ==
    LET existing == {n \in 1..Len(candidates) :
                        ExistingDateTime(candidates[n])}
    IN IF existing = {} THEN result = NoneDT
       ELSE /\ result = candidates[MinOf(existing)]
            /\ ExistingDateTime(result)

\* C17: parse_simple_date never returns a datetime built from components
\* out of range: a match with such components is rejected and the next
\* pattern is tried; the result is None when no pattern gives a valid date
C17_InvalidMatchRejected ==
    (pc = "returned" /\ op = "parse_simple_date" /\ text # NoneStr) =>
        FirstExisting(ret,
            [n \in 1..7 |-> Components(PatternSearch(n, text), Year(now))])

\* the YYYY-MM-DD match has month 13 and is rejected; the DD-MM-YYYY
\* pattern, tried next, gives 13 January
C17_Witness ==
    /\ pc = "returned"
    /\ op = "parse_simple_date"
    /\ text = Chars("2025-13-01-2025")
    /\ ret = <<2025, 1, 13, 0, 0>>

Ranged == pc = "returned" /\ op = "extract_datetime_range"

TimeOfDay(h, mi) == h \in 0..23 /\ mi \in 0..59

\* the minutes from a to b
MinutesBetween(a, b) ==
    (HourNumber(b) - HourNumber(a)) * 60 + Minute(b) - Minute(a)

\* dt is the date of day at h:mi, days days later
OnDayAt(dt, day, days, h, mi) ==
    /\ ExistingDateTime(dt)
    /\ DayNumber(dt) = DayNumber(day) + days
    /\ Hour(dt) = h
    /\ Minute(dt) = mi

\* range is anchor at r[1]:r[2] to anchor at r[3]:r[4], the end a day later
\* when its time is before the time of the start
SameOrNextDay(range, anchor, r) ==
    /\ OnDayAt(range[1], anchor, 0, r[1], r[2])
    /\ OnDayAt(range[2], anchor,
               IF r[3] * 60 + r[4] < r[1] * 60 + r[2] THEN 1 ELSE 0,
               r[3], r[4])
    /\ MinutesBetween(range[1], range[2]) \in 0..1439

\* the single-anchor branch: the date-range branch has not returned, an
\* anchor date was found, the text holds a time range r of times of the day,
\* and the day after the anchor exists when the range runs past midnight
SingleAnchorCase(range, branch1, anchor, r) ==
    (/\ branch1 = <<>>
     /\ anchor # NoneDT
     /\ r # <<>>
     /\ TimeOfDay(r[1], r[2])
     /\ TimeOfDay(r[3], r[4])
     /\ \/ r[3] * 60 + r[4] >= r[1] * 60 + r[2]
        \/ DayNumber(anchor) < DayNumber(<<9999, 12, 31, 0, 0>>))
    => SameOrNextDay(range, anchor, r)

\* C18: in the single-anchor branch of extract_datetime_range, for an
\* anchor date D and a time range s-e, start = D at s, and end = D at e
\* when e >= s, end = D + 1 day at e when e < s; so 0 <= end - start < 24 h
C18_TimeRangeOnAnchorDay ==
    (Ranged /\ text # NoneStr /\ text # <<>>) =>
        SingleAnchorCase(ret, DateRangeBranch(text, now),
            OrElse(parse_date_with_dateparser(text, now, dpStatus, dpValue),
                   parse_simple_date(text, now)),
            TimeRangeSearch(text))

\* the range 23:00-01:00 on 24 November ends on 25 November
C18_Witness ==
    /\ Ranged
    /\ dpStatus = "unavailable"
    /\ text = Chars("2025-11-24 23:00-01:00")
    /\ ret = << <<2025, 11, 24, 23, 0>>, <<2025, 11, 25, 1, 0>> >>

\* the year, month and day a date of the range pattern stands for, at 00:00
DateWritten(date) == Components(PatternAt(1, date, 1), 0)

\* range is first at the time found after the range, 00:00 when there is
\* none, to second at 23:59
FromDayToEndOfDay(range, first, second, time) ==
    /\ OnDayAt(range[1], first, 0,
               IF time = <<>> THEN 0 ELSE time[1],
               IF time = <<>> THEN 0 ELSE time[2])
    /\ OnDayAt(range[2], second, 0, 23, 59)

\* the date-range branch: the two dates of the range exist, and what
\* stands as a time in the 20 characters after the range is a time of the
\* day
DateRangeCase(range, m, first, second, time) ==
    (/\ m.ok
     /\ ExistingDateTime(first)
     /\ ExistingDateTime(second)
     /\ time = <<>> \/ TimeOfDay(time[1], time[2]))
    => FromDayToEndOfDay(range, first, second, time)

DateRangeOf(range, m, t) ==
    DateRangeCase(range, m, DateWritten(m.first), DateWritten(m.second),
                  TimeSearch(SubSeq(t, m.end, MinOf({Len(t), m.end + 19}))))

Returned == {c \in Threads : calls[c].result # NoInstance}

\* the threads that have found no instance and have not stored theirs yet
Creating == {c \in Threads : calls[c].at \in {"construct", "assign"}}

\* C20 as stated: across any interleaving of concurrent calls the default
\* instance is created exactly once and every caller receives that same
\* instance
C20_CreatedOnceForEveryCaller ==
    /\ constructed <= 1
    /\ \A c \in Returned : calls[c].result = 1

\* what a call returns is an instance that was constructed, never None
ReturnsAnInstance ==
    \A c \in Threads :
        (calls[c].made > 0 /\ calls[c].at = "idle")
            => calls[c].result \in 1..constructed

\* a thread constructs at most one instance, in a call that found none:
\* one thread calling again and again constructs exactly one
OncePerThread ==
    /\ constructed <= Cardinality({c \in Threads : calls[c].made > 0})
    /\ Returned # {} => constructed >= 1

\* once an instance is cached and no thread is still creating one, no
\* instance is constructed and the cached instance is not replaced
KeptOnceCreated ==
    (_parser_service_instance # NoInstance /\ Creating = {})
        => /\ constructed' = constructed
           /\ _parser_service_instance' = _parser_service_instance

\* C20 amended: calls that do not overlap the first creation construct
\* nothing and return the cached instance, which is never replaced, so
\* sequential calls create exactly one instance and all return it; calls
\* that overlap the first creation may each construct an instance, at most
\* one per thread, and every call returns an instance
C20_CreatedOnceUnlessRacing ==
    /\ [](ReturnsAnInstance /\ OncePerThread)
    /\ [][KeptOnceCreated]_vars

\* two calls of one thread after a call of another thread: one instance
\* was constructed and all three calls returned it
C20_Witness ==
    /\ constructed = 1
    /\ _parser_service_instance = 1
    /\ \E c \in Threads :
           /\ calls[c] = [at |-> "idle", made |-> MaxCallsPerThread,
                          new |-> NoInstance, result |-> 1]
           /\ \E d \in Threads \ {c} :
                  calls[d].at = "idle" /\ calls[d].result = 1

ParsedSimply == pc = "returned" /\ op = "parse_simple_date"

\* C21: for a text "D MonthName YYYY" parse_simple_date returns day D, the
\* named month and the year YYYY
C21_DayMonthNameYear ==
    ParsedSimply =>
        \A c \in DayMonthYearCases :
            text = c.text => ret = <<c.year, c.month, c.day, 0, 0>>

\* the month-name-first pattern, tried before, has read "November 20" out
\* of "22 November 2025": day 20 of the current year
C21_Witness ==
    /\ ParsedSimply
    /\ text = Chars("22 November 2025")
    /\ ret = <<2026, 11, 20, 0, 0>>

\* the date that pattern n reads at position i of t
ReadingAt(n, t, i, current_year) ==
    Components(PatternAt(n, t, i), current_year)

\* where t holds a date: the patterns and positions with an existing date
DateOccurrences(t, current_year) ==
    {o \in (1..7) \X (1..Len(t)) :
        /\ PatternAt(o[1], t, o[2]).ok
        /\ ExistingDateTime(ReadingAt(o[1], t, o[2], current_year))}

\* result is a reading of the leftmost of the occurrences
LeftmostOf(result, occurrences, t, current_year) ==
    occurrences # {} =>
        \E o \in occurrences :
            /\ \A q \in occurrences : o[2] <= q[2]
            /\ result = ReadingAt(o[1], t, o[2], current_year)

LeftmostMatch(n, t) ==
    IF \E i \in 1..Len(t) : PatternAt(n, t, i).ok
    THEN MinOf({i \in 1..Len(t) : PatternAt(n, t, i).ok})
    ELSE 0

\* the patterns whose leftmost match is an existing date
UsablePatterns(t, at, current_year) ==
    {n \in 1..7 :
        /\ at[n] > 0
        /\ ExistingDateTime(ReadingAt(n, t, at[n], current_year))}

\* result is the leftmost match of the first usable pattern
LeftmostOfFirstPattern(result, usable, t, at, current_year) ==
    IF usable = {} THEN result = NoneDT
    ELSE result = ReadingAt(MinOf(usable), t, at[MinOf(usable)], current_year)

LeftmostPerPattern(result, t, at, current_year) ==
    LeftmostOfFirstPattern(result, UsablePatterns(t, at, current_year), t, at,
                           current_year)

C23_TimeAfterIsoDate ==
    ParsedSimply =>
        \A c \in TimedDateCases :
            text = c.text => ret = <<2025, 11, 22, c.hour, c.minute>>

\* the time after the word "at" is not read: the ISO pattern only takes a
\* time that follows one space or "T"
C23_Witness ==
    /\ ParsedSimply
    /\ text = Chars("2025-11-22 at 14:30")
    /\ ret = <<2025, 11, 22, 0, 0>>

\* C26: for a token A-B-YYYY or A/B/YYYY parse_simple_date returns day A of
\* month B whenever that date exists, and day B of month A only when the
\* day-first date does not exist and the month-first date does
C26_DayFirstUnlessInvalid ==
    ParsedSimply =>
        \A c \in NumericDateCases :
            text = c.text =>
                LET day_first == <<2025, c.b, c.a, 0, 0>>
                    month_first == <<2025, c.a, c.b, 0, 0>>
                IN /\ ExistingDateTime(day_first) => ret = day_first
                   /\ (ret = month_first /\ c.a # c.b) =>
                          /\ ~ExistingDateTime(day_first)
                          /\ ExistingDateTime(month_first)

\* both readings of 01-02-2025 exist: the result is 1 February
C26_Witness ==
    /\ ParsedSimply
    /\ text = Chars("01-02-2025")
    /\ ret = <<2025, 2, 1, 0, 0>>

\* C30: extract_datetime_range never raises, and it returns a start that is
\* not None whenever parse_simple_date reads a date out of the fragment,
\* whatever else the fragment contains
C30_StartWheneverDateParses ==
    (pc # "call" /\ op = "extract_datetime_range") =>
        /\ pc = "returned"
        /\ parse_simple_date(text, now) # NoneDT => ret[1] # NoneDT

\* the date is read, the hour 25 of the time range makes replace() raise,
\* and the handler turns that into (None, None)
C30_Witness ==
    /\ Ranged
    /\ text = Chars("2025-11-24, 25:00-26:00")
    /\ parse_simple_date(text, now) = <<2025, 11, 24, 0, 0>>
    /\ ret = <<NoneDT, NoneDT>>

\* the timezone values a call may have been made with instead
OtherTimezones == Timezones \cup {<<>>, Chars("UTC"), Chars("Not/AZone")}

\* C29: the timezone argument does not influence extraction: parse and
\* extract_datetime_range give, for every other timezone value and the same
\* text, clock and dateparser behaviour, the outcome they have given, and
\* of the response of upload_text only the field timezone depends on it
C29_TimezoneDoesNotInfluence ==
    /\ (pc # "call" /\ op = "parse") =>
           \A tz \in OtherTimezones :
               parse(text, tz, now, dpStatus, dpValue)
                   = [pc |-> pc, exc |-> exc, ret |-> ret]
    /\ Ranged =>
           \A tz \in OtherTimezones :
               extract_datetime_range(text, tz, now, dpStatus, dpValue) = ret
    /\ (pc # "call" /\ op = "upload_text") =>
           /\ ret.timezone = TimezoneOrDefault(timezone)
           /\ \A tz \in OtherTimezones :
                  LET other == upload_text(text, tz, now, dpStatus, dpValue)
                  IN /\ other.pc = pc
                     /\ other.exc = exc
                     /\ [other.ret EXCEPT !.timezone = ret.timezone] = ret

\* a call with a timezone for a text without a date: the event starts at
\* the clock's value, as in a call without timezone
C29_Witness ==
    /\ pc = "returned"
    /\ op = "parse"
    /\ timezone = Chars("Asia/Shanghai")
    /\ text = Chars("Review ")
    /\ ret[1].start_time = now

RoundTripped == pc = "returned" /\ op = "parse_ics(generate_ics)"

\* C24: parse_ics(generate_ics(events)) returns as many events as were
\* given, in the same order, each with the title, location, description and
\* priority of the original event
C24_IcsRoundTrip ==
    RoundTripped =>
        /\ Len(ret) = Len(ics_events)
        /\ \A n \in 1..Len(ics_events) :
               /\ ret[n].title = ics_events[n].title
               /\ ret[n].location = ics_events[n].location
               /\ ret[n].description = ics_events[n].description
               /\ ret[n].priority = ics_events[n].priority

\* the title comes back as it was escaped, and the DESCRIPTION line of the
\* VALARM block has replaced the description of the event
C24_Witness ==
    /\ RoundTripped
    /\ Len(ics_events) = 1
    /\ ics_events[1].title = Chars("Lunch, then review")
    /\ ics_events[1].description = Chars("Bring notes")
    /\ ret[1].title = Chars("Lunch\\, then review")
    /\ ret[1].description = Chars("Event Reminder")
    /\ ret[1].location = ics_events[1].location
    /\ ret[1].priority = ics_events[1].priority

GotService == pc = "service" /\ op = "get_dateparser_service"

\* C27: the service that a call of get_dateparser_service returns is
\* configured with the timezone this call requested, with UTC when it
\* requested none, whatever earlier calls requested
C27_ServiceHasRequestedTimezone ==
    GotService =>
        ret.timezone = (IF timezone = NoneStr THEN Chars("UTC") ELSE timezone)

\* a call without a timezone returns the service that the first call
\* configured with Asia/Shanghai
C27_Witness ==
    /\ GotService
    /\ timezone = NoneStr
    /\ _dateparser_service = <<DateParserService(Chars("Asia/Shanghai"))>>
    /\ ret = _dateparser_service[1]
    /\ ret.timezone = Chars("Asia/Shanghai")

ParsedEvent == pc = "returned" /\ op = "parse_event"

\* the result r of parse_event(t) has both times or neither, and the end
\* is the start plus the duration stated in t
EndFollowsStart(r, t) ==
    /\ r.start_time = NoneDT <=> r.end_time = NoneDT
    /\ r.start_time # NoneDT =>
           /\ r.duration_minutes = extract_duration(t)
           /\ MinutesBetween(r.start_time, r.end_time) = r.duration_minutes
           /\ ~Before(r.end_time, r.start_time)

\* C28: in every result of parse_event for a text that is not empty,
\* start_time is None exactly when end_time is None, and when they are set
\* end_time is start_time plus duration_minutes, which is 60 x N for the
\* hours stated in the text, else the N of the minutes stated, else 60
C28_EndIsStartPlusDuration == ParsedEvent => EndFollowsStart(ret, text)

\* the library returned the last half hour of the year 9999: the result
\* has that start, the duration of two hours and no end
C28_Witness ==
    /\ ParsedEvent
    /\ text = <<"2", "u5C0F", "u65F6">>
    /\ ret.start_time = <<9999, 12, 31, 23, 30>>
    /\ ret.duration_minutes = 120
    /\ ret.end_time = NoneDT

ParsedEvents == pc = "returned" /\ op = "parse_multiple_events"

\* the weights, in hundredths, of the fields that the result r holds; the
\* duration is extracted whenever a start time was parsed
SumOfWeights(r) ==
    (IF r.start_time # NoneDT THEN 30 + 20 ELSE 0)
        + (IF r.end_time # NoneDT THEN 20 ELSE 0)
        + (IF r.location # NoneStr THEN 15 ELSE 0)
        + (IF r.title # NoneStr THEN 15 ELSE 0)

\* the confidence of the result r, in hundredths, is as the weights say
ConfidenceAsWeighted(r) ==
    /\ r.confidence \in 0..100
    /\ r.confidence = SumOfWeights(r)
    /\ r.confidence = 0 <=> r.start_time = NoneDT
    /\ r.start_time # NoneDT /\ r.location = NoneStr => r.confidence = 85
    /\ r.start_time # NoneDT /\ r.location # NoneStr => r.confidence = 100

\* the result of parse_event for the k-th sentence of t
ResultFor(t, k, outcome) ==
    parse_event(Sentence(t, k), outcome[1], outcome[2]).ret

\* the sentences of t that are not empty and whose result has a start time
WithStartTime(t, outcomes) ==
    SelectSeq([k \in 1..SentenceCount(t) |-> k],
              LAMBDA k : /\ Sentence(t, k) # <<>>
                         /\ ResultFor(t, k, outcomes[k]).start_time # NoneDT)

\* events are the results of parse_event that have a start time, for the
\* sentences of t in their order and for something the library may do for
\* each sentence
EmittedByStartTime(events, t) ==
    \E outcomes \in [1..SentenceCount(t) -> ServiceOutcomes] :
        events = [n \in 1..Len(WithStartTime(t, outcomes)) |->
                     ResultFor(t, WithStartTime(t, outcomes)[n],
                               outcomes[WithStartTime(t, outcomes)[n]])]

\* C25: the confidence of parse_event lies in [0, 1] and is the sum of the
\* weights of the fields extracted: 0 exactly when no start time was
\* parsed, 0.85 with a start time and no location, 1.0 with both; and
\* parse_multiple_events emits an event exactly when it has a start time,
\* whatever its confidence
C25_ConfidenceFromFields ==
    /\ ParsedEvent => ConfidenceAsWeighted(ret)
    /\ ParsedEvents => EmittedByStartTime(ret, text)

\* the library returned the last half hour of the year 9999 for a text
\* without a location: the confidence is 0.5
C25_Witness ==
    /\ ParsedEvent
    /\ text = <<"u660E", "u5929", "u4E0B", "u5348", "2", DIAN, "u5F00", HUI>>
    /\ ret.start_time = <<9999, 12, 31, 23, 30>>
    /\ ret.location = NoneStr
    /\ ret.confidence = 50

====
